---- MODULE Spec2Model ----
(***************************************************************************)
(* A model of the lazy iterator pipeline of writ: the slice/chunk algebra  *)
(* (util.chunker), the masked multi-stream zip (util.safezip), and the     *)
(* transform stages built on them (transform.censor, transform.prefetch,   *)
(* transform.rejection, transform.extend, transform.breaker,               *)
(* transform.filter), the threaded reader (read.experimental), the tuple   *)
(* helpers of util, the HDF5 writer (write.batchh5) and the schema reader  *)
(* (read.schemah5).                                                        *)
(*                                                                         *)
(* Every component is a Python generator or object.  Its state is held in  *)
(* one record variable named after it, with one field per local variable   *)
(* or attribute of the source; one action models one resumption of the     *)
(* generator (one next() call) or one method call.  A component that a     *)
(* specification does not exercise stays at Unused.                        *)
(*                                                                         *)
(* Python sequences are 0-based; TLA+ sequences are 1-based.  Index        *)
(* arithmetic is done 0-based, as in the source, and shifted by one only   *)
(* where a sequence is read.                                               *)
(***************************************************************************)
EXTENDS Integers, Sequences, FiniteSets, TLC

VARIABLES chunker, safezip, censor, prefetch, batched,
          rsampler, extender, breaker, filter,
          threader, stage, tupleops, h5save, schemah5

vars == <<chunker, safezip, censor, prefetch, batched,
          rsampler, extender, breaker, filter,
          threader, stage, tupleops, h5save, schemah5>>

\* The components other than the one a specification exercises.
notChunker ==
    <<safezip, censor, prefetch, batched, rsampler,
      extender, breaker, filter, threader,
      stage, tupleops, h5save, schemah5>>
notSafezip ==
    <<chunker, censor, prefetch, batched, rsampler,
      extender, breaker, filter, threader,
      stage, tupleops, h5save, schemah5>>
notCensor ==
    <<chunker, safezip, prefetch, batched, rsampler,
      extender, breaker, filter, threader,
      stage, tupleops, h5save, schemah5>>
notPrefetch ==
    <<chunker, safezip, censor, batched, rsampler,
      extender, breaker, filter, threader,
      stage, tupleops, h5save, schemah5>>
notBatched ==
    <<chunker, safezip, censor, prefetch, rsampler,
      extender, breaker, filter, threader,
      stage, tupleops, h5save, schemah5>>
notRSampler ==
    <<chunker, safezip, censor, prefetch, batched,
      extender, breaker, filter, threader,
      stage, tupleops, h5save, schemah5>>
notExtender ==
    <<chunker, safezip, censor, prefetch, batched,
      rsampler, breaker, filter, threader,
      stage, tupleops, h5save, schemah5>>
notBreaker ==
    <<chunker, safezip, censor, prefetch, batched,
      rsampler, extender, filter, threader,
      stage, tupleops, h5save, schemah5>>
notFilter ==
    <<chunker, safezip, censor, prefetch, batched,
      rsampler, extender, breaker, threader,
      stage, tupleops, h5save, schemah5>>
notThreader ==
    <<chunker, safezip, censor, prefetch, batched,
      rsampler, extender, breaker, filter,
      stage, tupleops, h5save, schemah5>>
notStage ==
    <<chunker, safezip, censor, prefetch, batched,
      rsampler, extender, breaker, filter,
      threader, tupleops, h5save, schemah5>>
notTupleops ==
    <<chunker, safezip, censor, prefetch, batched,
      rsampler, extender, breaker, filter,
      threader, stage, h5save, schemah5>>
notH5save ==
    <<chunker, safezip, censor, prefetch, batched,
      rsampler, extender, breaker, filter,
      threader, stage, tupleops, schemah5>>
notSchemaH5 ==
    <<chunker, safezip, censor, prefetch, batched,
      rsampler, extender, breaker, filter,
      threader, stage, tupleops, h5save>>

\* The state of a component that is not in use.
Unused == [pc |-> "unused"]

\* An Optional value: None is the empty sequence, a value v is <<v>>.
None == <<>>
Some(v) == <<v>>
Val(o) == o[1]

\* The outcome of an index lookup or of next(): a value, or the exception.
Ok(v) == [err |-> FALSE, val |-> v]
IndexError == [err |-> TRUE]
StopIteration == [err |-> TRUE]

Min(a, b) == IF a <= b THEN a ELSE b

\* ceil(a / b) for a >= 0, b >= 1
CeilDiv(a, b) == (a + b - 1) \div b

\* Concatenation of a sequence of sequences, in order.
RECURSIVE Flatten(_)
Flatten(ss) == IF ss = <<>> THEN <<>> ELSE Head(ss) \o Flatten(Tail(ss))

(***************************************************************************)
(* Bounds of the model.                                                    *)
(***************************************************************************)
MaxLen == 5
MaxSize == 3
MaxStride == 3
MaxStreams == 3
MaxItems == 3
MaxPulls == 2
MaxFrames == 3
MaxSource == 4
MaxFetch == 3
MaxIters == 2
MaxBatchIters == 1
MaxWeights == 1
MaxThreadItems == 3
MaxCache == 2
MaxThreadIters == 2
MaxTupleLen == 3
MaxRows == 2
MaxGroups == 3
MaxStagePulls == 2
MaxStageIters == 2

(***************************************************************************)
(* util.chunker                                                            *)
(***************************************************************************)

\* len(range(0, length, stride))
RangeLen(length, stride) == CeilDiv(length, stride)

\* range(0, length, stride)[k] for k >= 0
RangeAt(length, stride, k) ==
    IF k < RangeLen(length, stride) THEN Ok(k * stride) ELSE IndexError

\* data[start:stop:stride] for 0 <= start, 0 <= stop, stride >= 1
Slice(data, start, stop, stride) ==
    LET hi == Min(stop, Len(data))
        n  == IF hi > start THEN CeilDiv(hi - start, stride) ELSE 0
    IN  [j \in 1..n |-> data[start + (j - 1) * stride + 1]]

\* start = inds[chunk_index * size], with the stride forgotten
ChunkStartBlind(length, stride, size, chunk_index) ==
    IF chunk_index * size < length THEN Ok(chunk_index * size)
    ELSE IndexError

\* start = inds[chunk_index * size]
ChunkStart(length, stride, size, chunk_index) ==
    RangeAt(length, stride, chunk_index * size)

\* try: stop = inds[(chunk_index + 1) * size]
\* except IndexError: stop = length; done = True
ChunkStop(length, stride, size, chunk_index) ==
    LET s == RangeAt(length, stride, (chunk_index + 1) * size)
    IN  IF s.err THEN [stop |-> length, done |-> TRUE]
        ELSE [stop |-> s.val, done |-> FALSE]

\* The call chunker(data, size, stride): a generator that has not run yet.
ChunkerInit ==
    /\ safezip = Unused /\ censor = Unused
    /\ prefetch = Unused /\ batched = Unused
    /\ rsampler = Unused /\ extender = Unused
    /\ breaker = Unused /\ filter = Unused
    /\ threader = Unused /\ stage = Unused /\ tupleops = Unused
    /\ h5save = Unused /\ schemah5 = Unused
    /\ \E length \in 0..MaxLen,
          size \in {Some(c) : c \in 1..MaxSize} \cup {None},
          stride \in 1..MaxStride :
        chunker = [data |-> [i \in 1..length |-> i], size |-> size,
                   stride |-> stride, chunk_index |-> 0, done |-> FALSE,
                   out |-> <<>>, pc |-> "created"]

\* next() with size None: yield data[::stride]
ChunkerYieldAll ==
    /\ chunker.pc = "created"
    /\ chunker.size = None
    /\ chunker' = [chunker EXCEPT
          !.out = Append(@, Slice(chunker.data, 0, Len(chunker.data),
                                  chunker.stride)),
          !.done = TRUE,
          !.pc = "yielded"]
    /\ UNCHANGED notChunker

\* next() with a bounded size: one pass of the for loop up to its yield
ChunkerYieldChunk ==
    /\ chunker.pc \in {"created", "yielded"}
    /\ chunker.size # None
    /\ ~chunker.done
    /\ LET length == Len(chunker.data)
           start  == ChunkStart(length, chunker.stride, Val(chunker.size),
                                chunker.chunk_index)
           sd     == ChunkStop(length, chunker.stride, Val(chunker.size),
                               chunker.chunk_index)
       IN  IF start.err
           THEN chunker' = [chunker EXCEPT !.pc = "IndexError"]
           ELSE chunker' = [chunker EXCEPT
                   !.out = Append(@, Slice(chunker.data, start.val, sd.stop,
                                           chunker.stride)),
                   !.done = sd.done,
                   !.chunk_index = @ + 1,
                   !.pc = "yielded"]
    /\ UNCHANGED notChunker

\* next() after the last yield: return (StopIteration)
ChunkerReturn ==
    /\ chunker.pc = "yielded"
    /\ chunker.done
    /\ chunker' = [chunker EXCEPT !.pc = "returned"]
    /\ UNCHANGED notChunker

ChunkerNext ==
    \/ ChunkerYieldAll
    \/ ChunkerYieldChunk
    \/ ChunkerReturn

SpecChunker == ChunkerInit /\ [][ChunkerNext]_vars

\* data[::stride], element by element: the items at 0-based indices that are
\* multiples of stride
RECURSIVE StridedFrom(_, _, _)
StridedFrom(data, stride, i) ==
    IF i > Len(data) THEN <<>>
    ELSE IF (i - 1) % stride = 0
         THEN <<data[i]>> \o StridedFrom(data, stride, i + 1)
         ELSE StridedFrom(data, stride, i + 1)

StridedView(data, stride) == StridedFrom(data, stride, 1)

IsPrefix(s, t) == Len(s) <= Len(t) /\ SubSeq(t, 1, Len(s)) = s

\* C1: for a bounded chunk size, the chunks yielded so far concatenate to a
\* prefix of data[::stride], and once the iteration is over the chunks
\* yielded concatenate to exactly data[::stride].
C1_ChunkConcatIdentity ==
    (chunker.pc # "unused" /\ chunker.size # None) =>
        /\ IsPrefix(Flatten(chunker.out),
                    StridedView(chunker.data, chunker.stride))
        /\ chunker.pc \in {"returned", "IndexError"} =>
              Flatten(chunker.out) = StridedView(chunker.data, chunker.stride)

\* A finished iteration over data whose length is divisible neither by the
\* stride nor by the chunk size, served in several chunks, the last shorter.
C1_Witness ==
    /\ chunker.pc = "returned"
    /\ chunker.size = Some(2)
    /\ chunker.stride = 2
    /\ Len(chunker.data) = 5
    /\ Len(chunker.out) = 2
    /\ Len(chunker.out[2]) = 1

\* C27: on data of length 0 a bounded size yields no chunk and raises
\* nothing; with size None the chunks yielded are exactly the one slice
\* data[::stride], the empty one for data of length 0.
C27_EmptyDataAndUnchunked ==
    chunker.pc # "unused" =>
        /\ (Len(chunker.data) = 0 /\ chunker.size # None) =>
              /\ chunker.out = <<>>
              /\ chunker.pc # "IndexError"
        /\ (chunker.size = None /\ chunker.pc # "created") =>
              chunker.out = <<StridedView(chunker.data, chunker.stride)>>

(***************************************************************************)
(* util.safezip                                                            *)
(*                                                                         *)
(* A stream is a list iterator over finitely many items, or                *)
(* itertools.repeat(x), which never ends.  The item at position k of       *)
(* stream i is the number 10 * i + k, so that an emitted tuple shows which *)
(* stream and which position each of its entries came from.                *)
(***************************************************************************)
ListStream(i, n) == [kind |-> "list", items |-> [k \in 1..n |-> 10 * i + k]]
RepeatStream(i)  == [kind |-> "repeat", items |-> <<10 * i>>]

\* next(g) for a stream of which pos items have been drawn
StreamNext(stream, pos) ==
    IF stream.kind = "repeat" THEN Ok(stream.items[1])
    ELSE IF pos < Len(stream.items) THEN Ok(stream.items[pos + 1])
    ELSE StopIteration

\* if mask is None: mask = len(its) * [True], with False for True
EffectiveMaskLax(mask, n) ==
    IF mask = None THEN [i \in 1..n |-> FALSE] ELSE Val(mask)

\* if mask is None: mask = len(its) * [True]
EffectiveMask(mask, n) ==
    IF mask = None THEN [i \in 1..n |-> TRUE] ELSE Val(mask)

\* results: the values appended by the pulls that succeeded, in stream order
RECURSIVE Results(_)
Results(pulls) ==
    IF pulls = <<>> THEN <<>>
    ELSE IF Head(pulls).err THEN Results(Tail(pulls))
         ELSE <<Head(pulls).val>> \o Results(Tail(pulls))

\* all(successes), an empty list counting as a failure
AllSuccessesOfSome(successes) ==
    /\ successes # <<>>
    /\ \A i \in DOMAIN successes : successes[i]

\* all(successes)
AllSuccesses(successes) == \A i \in DOMAIN successes : successes[i]

\* any(successes): the mask left out of the test
AnySuccess(successes, mask) == \E i \in DOMAIN successes : successes[i]

\* any(x if y else False for x, y in zip(successes, mask))
AnyMaskedSuccess(successes, mask) ==
    \E i \in 1..Min(Len(successes), Len(mask)) : mask[i] /\ successes[i]

\* for g in its: try: next(g), as zip would do it: no stream is tried after
\* one that was found exhausted
RoundPullsUntilExhausted(its, pos) ==
    [i \in DOMAIN its |->
        IF \A j \in 1..(i - 1) : ~StreamNext(its[j], pos[j]).err
        THEN StreamNext(its[i], pos[i])
        ELSE StopIteration]

\* for g in its: try: next(g) except StopIteration: every stream is tried
RoundPulls(its, pos) == [i \in DOMAIN its |-> StreamNext(its[i], pos[i])]

\* The rounds a model run may take: enough to exhaust every finite stream.
MaxRounds == MaxItems + 2

\* The call safezip(*args, mask=mask): a generator that has not run yet.
\* pos[i] counts the items drawn from stream i.
SafezipInit ==
    /\ chunker = Unused /\ censor = Unused
    /\ prefetch = Unused /\ batched = Unused
    /\ rsampler = Unused /\ extender = Unused
    /\ breaker = Unused /\ filter = Unused
    /\ threader = Unused /\ stage = Unused /\ tupleops = Unused
    /\ h5save = Unused /\ schemah5 = Unused
    /\ \E n \in 0..MaxStreams :
      \E lens \in [1..n -> 0..(MaxItems + 1)],
         mask \in {None} \cup
                  {Some(m) : m \in UNION {[1..k -> BOOLEAN] :
                                            k \in {n - 1, n, n + 1} \cap Nat}} :
        safezip = [its |-> [i \in 1..n |->
                              IF lens[i] > MaxItems THEN RepeatStream(i)
                              ELSE ListStream(i, lens[i])],
                   arg_mask |-> mask,
                   mask |-> <<>>,
                   pos |-> [i \in 1..n |-> 0],
                   successes |-> <<>>,
                   out |-> <<>>,
                   pc |-> "created"]

\* One next() call: on the first the mask is set up, then one pass of the
\* while loop pulls from every stream and serves, raises or returns.
SafezipRound ==
    /\ safezip.pc \in {"created", "yielded"}
    /\ Len(safezip.out) < MaxRounds
    /\ LET n         == Len(safezip.its)
           mask      == IF safezip.pc = "created"
                        THEN EffectiveMask(safezip.arg_mask, n)
                        ELSE safezip.mask
           pulls     == RoundPulls(safezip.its, safezip.pos)
           successes == [i \in 1..n |-> ~pulls[i].err]
           results   == Results(pulls)
           drawn     == [i \in 1..n |-> IF successes[i]
                                        THEN safezip.pos[i] + 1
                                        ELSE safezip.pos[i]]
       IN  IF Len(mask) # n
           THEN safezip' = [safezip EXCEPT !.mask = mask,
                                           !.pc = "ValueError"]
           ELSE safezip' = [safezip EXCEPT
                   !.mask = mask,
                   !.pos = drawn,
                   !.successes = successes,
                   !.out = IF AllSuccesses(successes)
                           THEN Append(@, results) ELSE @,
                   !.pc = IF AllSuccesses(successes) THEN "yielded"
                          ELSE IF AnyMaskedSuccess(successes, mask)
                               THEN "ValueError"
                               ELSE "returned"]
    /\ UNCHANGED notSafezip

SafezipNext == SafezipRound

SpecSafezip == SafezipInit /\ [][SafezipNext]_vars

\* The consumer keeps calling next() as long as the iteration is not over.
FairSpecSafezip == SpecSafezip /\ WF_vars(SafezipRound)

\* The mask has an entry for every stream, or is None.
MaskFits ==
    safezip.arg_mask = None \/ Len(Val(safezip.arg_mask)) = Len(safezip.its)

\* The streams the caller marked strict: all of them when mask is None.
StrictStreams ==
    IF safezip.arg_mask = None THEN DOMAIN safezip.its
    ELSE {i \in DOMAIN safezip.its : Val(safezip.arg_mask)[i]}

\* The number of items of a stream that can still be counted.
StreamLen(stream) ==
    IF stream.kind = "repeat" THEN MaxRounds + 1 ELSE Len(stream.items)

\* The tuple of round r: the r-th item of every stream, in stream order.
RoundTuple(r) ==
    [i \in DOMAIN safezip.its |->
        IF safezip.its[i].kind = "repeat" THEN safezip.its[i].items[1]
        ELSE safezip.its[i].items[r]]

\* The tuples of rounds 1..k.
RoundTuples(k) == [r \in 1..k |-> RoundTuple(r)]

\* The rounds in which every stream has an item.
CompleteRounds ==
    CHOOSE k \in 0..(MaxRounds + 1) :
        /\ \A i \in DOMAIN safezip.its : StreamLen(safezip.its[i]) >= k
        /\ \/ k = MaxRounds + 1
           \/ \E i \in DOMAIN safezip.its : StreamLen(safezip.its[i]) = k

\* The last round was lopsided among the strict streams: one of them yielded
\* a value and another was exhausted.
LopsidedAmongStrict ==
    \E i, j \in StrictStreams : safezip.successes[i] /\ ~safezip.successes[j]

SafezipRan == safezip.pc \in {"yielded", "returned", "ValueError"}
             /\ safezip.successes # <<>>

\* C2: a round in which one strict stream yields a value while another strict
\* stream is exhausted ends in the synchronization error (ValueError), with
\* exactly the tuples of the earlier complete rounds emitted; a mask of None
\* makes every stream strict.
C2_StrictLopsidedRaises ==
    (SafezipRan /\ LopsidedAmongStrict) =>
        /\ safezip.pc = "ValueError"
        /\ safezip.out = RoundTuples(CompleteRounds)

\* safezip([1,2,3], [1,2]) with mask None: two tuples, then the error.
C2_Witness ==
    /\ safezip.pc = "ValueError"
    /\ safezip.arg_mask = None
    /\ Len(safezip.its) = 2
    /\ safezip.successes = <<TRUE, FALSE>>
    /\ Len(safezip.out) = 2

\* C3: a round in which a non-strict stream is exhausted while every strict
\* stream still yields a value ends the iteration cleanly, without an error.
C3_LaxExhaustionEndsCleanly ==
    (/\ SafezipRan
     /\ StrictStreams # {}
     /\ \A i \in StrictStreams : safezip.successes[i]
     /\ \E i \in DOMAIN safezip.its \ StrictStreams : ~safezip.successes[i])
    => safezip.pc = "returned"

\* Every strict stream is a list of the same length, and every other stream
\* has at least that many items.
StrictLen == Len(safezip.its[CHOOSE i \in StrictStreams : TRUE].items)

BalancedStreams ==
    /\ safezip.pc # "unused"
    /\ MaskFits
    /\ StrictStreams # {}
    /\ \A i \in StrictStreams : /\ safezip.its[i].kind = "list"
                                /\ Len(safezip.its[i].items) = StrictLen
    /\ \A i \in DOMAIN safezip.its : StreamLen(safezip.its[i]) >= StrictLen

\* C4: when the strict streams all have n items and every other stream has at
\* least n, safezip never raises, never emits more than n tuples, emits the
\* i-th item of every stream in stream order as its i-th tuple, and has
\* emitted exactly n tuples when it returns.
C4_BalancedStreamsZip ==
    BalancedStreams =>
        /\ safezip.pc # "ValueError"
        /\ Len(safezip.out) <= StrictLen
        /\ safezip.out = RoundTuples(Len(safezip.out))
        /\ safezip.pc = "returned" => Len(safezip.out) = StrictLen

\* Two strict streams of two items, a longer list and an endless stream that
\* are not strict: two tuples, then a clean end.
C4_Witness ==
    /\ BalancedStreams
    /\ safezip.pc = "returned"
    /\ Len(safezip.its) = 3
    /\ Cardinality(StrictStreams) = 1
    /\ StrictLen = 2
    /\ \E i \in DOMAIN safezip.its : safezip.its[i].kind = "repeat"
    /\ \E i \in DOMAIN safezip.its :
          safezip.its[i].kind = "list" /\ Len(safezip.its[i].items) = 3
    /\ Len(safezip.out) = 2

\* The iteration is over: it returned or raised.
SafezipEnded == safezip.pc \in {"returned", "ValueError"}

\* The items drawn from stream i when it was tried in each of rounds rounds.
DrawnIn(i, rounds) == Min(StreamLen(safezip.its[i]), rounds)

SomeFiniteStream == \E i \in DOMAIN safezip.its : safezip.its[i].kind = "list"

Frames == {3, 9}
Threshold == 7

\* np.diff(np.array(mask)): for booleans, whether neighbours differ
Diff(mask) == [i \in 1..(Len(mask) - 1) |-> mask[i + 1] # mask[i]]

\* np.nonzero(differences)[0]: the 0-based indices of the True entries,
\* ascending
RECURSIVE NonZeroFrom(_, _)
NonZeroFrom(d, i) ==
    IF i > Len(d) THEN <<>>
    ELSE IF d[i] THEN <<i - 1>> \o NonZeroFrom(d, i + 1)
         ELSE NonZeroFrom(d, i + 1)

NonZero(d) == NonZeroFrom(d, 1)

\* events = [x + 1 for x in np.nonzero(differences)[0]]
Events(mask) ==
    LET nz == NonZero(Diff(mask)) IN [k \in 1..Len(nz) |-> nz[k] + 1]

\* aligned_events = events, whatever the mask starts with
AlignedEventsUnaligned(mask) == Events(mask)

\* aligned_events = [0, *events] if start_type else events
AlignedEvents(mask) ==
    IF mask[1] THEN <<0>> \o Events(mask) ELSE Events(mask)

\* The while loop: pair the events up as (start, end); a start without an
\* end runs to size.
RECURSIVE PairUp(_, _)
PairUp(events, size) ==
    IF events = <<>> THEN <<>>
    ELSE IF Len(events) = 1 THEN <<[start |-> events[1], stop |-> size]>>
    ELSE <<[start |-> events[1], stop |-> events[2]]>>
         \o PairUp(Tail(Tail(events)), size)

\* _mask_to_slices(mask): a list of slice(start, end)
MaskToSlices(mask) ==
    IF Len(mask) = 0 THEN <<>>
    ELSE PairUp(AlignedEvents(mask), Len(mask))

\* values[s] for s = slice(start, stop)
SliceOf(values, s) == Slice(values, s.start, s.stop, 1)

\* _indices_to_mask(indices, max_size) with every position preserved
IndicesToMaskAll(indices, max_size) == [x \in 1..max_size |-> TRUE]

\* _indices_to_mask(indices, max_size), indices given 0-based
IndicesToMask(indices, max_size) ==
    IF indices = None THEN [x \in 1..max_size |-> TRUE]
    ELSE [x \in 1..max_size |-> (x - 1) \in Val(indices)]

\* tuple_remove(tup, position), a negative position shifted as tuple_insert
\* shifts it
TupleRemoveShifted(tup, position) ==
    LET n == Len(tup)
        p == IF position < 0 THEN n + position + 1 ELSE position
    IN  IF p < 0 \/ p >= n THEN IndexError
        ELSE Ok([k \in 1..(n - 1) |-> IF k <= p THEN tup[k] ELSE tup[k + 1]])

\* tuple_remove(tup, position): del l_form[position]
TupleRemove(tup, position) ==
    LET n == Len(tup)
        p == IF position < 0 THEN n + position ELSE position
    IN  IF p < 0 \/ p >= n THEN IndexError
        ELSE Ok([k \in 1..(n - 1) |-> IF k <= p THEN tup[k] ELSE tup[k + 1]])

\* self.censor(pull) or self.censor(pull[self.input_index]): the frames of
\* position 0 compared with the threshold, frame by frame
CensorTest(pull, input_index) ==
    LET x == IF input_index = None THEN pull[1] ELSE pull[Val(input_index) + 1]
    IN  [i \in 1..Len(x) |-> x[i] < Threshold]

\* The sub-pulls one source pull is broken into: the body of the for loop
\* over self.source, for one pull.  TypeError: tuple_remove with an
\* input_index of None.
CensorServe(pull, input_index, discard_input, apply_to) ==
    LET mask == CensorTest(pull, input_index)
        kept == IF discard_input
                THEN (IF input_index = None THEN [err |-> TRUE]
                      ELSE TupleRemove(pull, Val(input_index)))
                ELSE Ok(pull)
    IN  IF kept.err THEN [err |-> TRUE]
        ELSE LET to_include_mask == IndicesToMask(apply_to, Len(kept.val))
                 slices == MaskToSlices(mask)
             IN  Ok([k \in 1..Len(slices) |->
                       [pull |-> [j \in 1..Len(kept.val) |->
                                     IF to_include_mask[j]
                                     THEN SliceOf(kept.val[j], slices[k])
                                     ELSE kept.val[j]],
                        s |-> slices[k]]])

\* The arrays of n frames, and the sources: up to MaxPulls pulls of one
\* arity, each holding arrays of one length.  A second position holds the
\* frame numbers 51, 52, ...
ArraysOf(n) == [1..n -> Frames]

PullsOfArity(a) ==
    {IF a = 1 THEN <<x>> ELSE <<x, [i \in 1..Len(x) |-> 50 + i]>> :
        x \in UNION {ArraysOf(n) : n \in 0..MaxFrames}}

\* Censor(source, censor, input_index, discard_input, apply_to), and
\* iter() of it: a generator that has not run yet.  idx counts the pulls
\* taken from the source; pending holds the sub-pulls of the current pull
\* that are still to be served; each served sub-pull is recorded with the
\* source pull (src) and the slice (s) it was cut from.  Pulls of one
\* position are censored with discard_input and apply_to left at their
\* defaults, pulls of two positions with every setting.
CensorInit ==
    /\ chunker = Unused /\ safezip = Unused
    /\ prefetch = Unused /\ batched = Unused
    /\ rsampler = Unused /\ extender = Unused
    /\ breaker = Unused /\ filter = Unused
    /\ threader = Unused /\ stage = Unused /\ tupleops = Unused
    /\ h5save = Unused /\ schemah5 = Unused
    /\ \E a \in 1..2, n \in 0..MaxPulls :
       \E source \in [1..n -> PullsOfArity(a)],
          input_index \in {None, Some(0)},
          discard_input \in BOOLEAN,
          apply_to \in {None, Some({0})} :
        /\ a = 1 => (~discard_input /\ apply_to = None)
        /\ censor = [source |-> source, input_index |-> input_index,
                  discard_input |-> discard_input, apply_to |-> apply_to,
                  idx |-> 0, pending |-> <<>>, out |-> <<>>,
                  pc |-> "created"]

\* One next() call on the generator c: the next slice of the current pull is
\* served; when none is left the next pull is taken from the source and
\* broken up, until a pull has a slice to serve, tuple_remove fails or the
\* source is exhausted.
RECURSIVE CensorResume(_)
CensorResume(c) ==
    IF c.pending # <<>>
    THEN [c EXCEPT !.out = Append(@, [pull |-> Head(c.pending).pull,
                                      s    |-> Head(c.pending).s,
                                      src  |-> c.idx]),
                   !.pending = Tail(@),
                   !.pc = "yielded"]
    ELSE IF c.idx = Len(c.source)
    THEN [c EXCEPT !.pc = "returned"]
    ELSE LET served == CensorServe(c.source[c.idx + 1], c.input_index,
                                   c.discard_input, c.apply_to)
         IN  IF served.err
             THEN [c EXCEPT !.idx = @ + 1, !.pc = "TypeError"]
             ELSE CensorResume([c EXCEPT !.idx = @ + 1,
                                         !.pending = served.val])

\* next() that serves a sub-pull
CensorYield ==
    /\ censor.pc \in {"created", "yielded"}
    /\ censor' = CensorResume(censor)
    /\ censor'.pc = "yielded"
    /\ UNCHANGED notCensor

\* next() that fails in tuple_remove
CensorRaise ==
    /\ censor.pc \in {"created", "yielded"}
    /\ censor' = CensorResume(censor)
    /\ censor'.pc = "TypeError"
    /\ UNCHANGED notCensor

\* next() that finds the source exhausted: return (StopIteration)
CensorReturn ==
    /\ censor.pc \in {"created", "yielded"}
    /\ censor' = CensorResume(censor)
    /\ censor'.pc = "returned"
    /\ UNCHANGED notCensor

CensorNext ==
    \/ CensorYield
    \/ CensorRaise
    \/ CensorReturn

SpecCensor == CensorInit /\ [][CensorNext]_vars

\* The test mask of source pull k, read off the source: frame i passes when
\* it is below the threshold.
TestMask(k) ==
    [i \in 1..Len(censor.source[k][1]) |->
        censor.source[k][1][i] < Threshold]

\* Source pull k as it is served: without the test input when discard_input.
KeptPull(k) ==
    IF censor.discard_input THEN Tail(censor.source[k]) ELSE censor.source[k]

\* The positions of a served pull that apply_to selects.
Selected(j) == censor.apply_to = None \/ (j - 1) \in Val(censor.apply_to)

\* [start, stop) is a maximal run of True values of mask (0-based).
IsMaximalRun(mask, start, stop) ==
    /\ 0 <= start /\ start < stop /\ stop <= Len(mask)
    /\ \A i \in (start + 1)..stop : mask[i]
    /\ start = 0 \/ ~mask[start]
    /\ stop = Len(mask) \/ ~mask[stop + 1]

\* The source pulls whose sub-pulls have all been served.
CensorCompleted ==
    {k \in 1..censor.idx : k < censor.idx \/ censor.pending = <<>>}

\* C5: every emitted pull is cut from one source pull along one maximal run of
\* True values of that pull's test mask: the selected positions hold exactly
\* the frames of the run, contiguous and in order, the others pass through.
\* The pulls are emitted in source order and, within a source pull, in
\* ascending run order with at least one False between two runs; once a
\* source pull is done its runs cover exactly the True indices of its mask.
C5_CensorServesMaximalRuns ==
    (censor.pc \in {"created", "yielded", "returned"}) =>
        /\ \A e \in DOMAIN censor.out :
              LET o == censor.out[e] IN
              /\ o.src \in 1..censor.idx
              /\ IsMaximalRun(TestMask(o.src), o.s.start, o.s.stop)
              /\ Len(o.pull) = Len(KeptPull(o.src))
              /\ \A j \in DOMAIN o.pull :
                    o.pull[j] = IF Selected(j)
                                THEN SubSeq(KeptPull(o.src)[j],
                                            o.s.start + 1, o.s.stop)
                                ELSE KeptPull(o.src)[j]
        /\ \A e, f \in DOMAIN censor.out :
              e < f =>
                 \/ censor.out[e].src < censor.out[f].src
                 \/ /\ censor.out[e].src = censor.out[f].src
                    /\ censor.out[e].s.stop < censor.out[f].s.start
        /\ \A k \in CensorCompleted :
              \A i \in DOMAIN TestMask(k) :
                 TestMask(k)[i] <=>
                    \E e \in DOMAIN censor.out :
                       /\ censor.out[e].src = k
                       /\ censor.out[e].s.start < i
                       /\ i <= censor.out[e].s.stop

\* Two source pulls of two positions, the first ending and the second starting
\* with an accepted frame: three pulls are emitted, and the last frame of the
\* first source pull is not fused with the first frames of the second.
C5_Witness ==
    /\ censor.pc = "returned"
    /\ censor.input_index = None /\ ~censor.discard_input
    /\ censor.apply_to = None
    /\ Len(censor.source) = 2
    /\ censor.source[1][1] = <<3, 9, 3>>
    /\ censor.source[2][1] = <<3, 3, 9>>
    /\ Len(censor.out) = 3
    /\ censor.out[2].pull = <<<<3>>, <<53>>>>
    /\ censor.out[3].pull = <<<<3, 3>>, <<51, 52>>>>

(***************************************************************************)
(* transform.prefetch: Prefetch                                            *)
(*                                                                         *)
(* The source of a Prefetch is an iterator over the items 1, 2, ..., of    *)
(* which pos have been drawn.  It is drawn from directly (window None) or  *)
(* through islice(it, size), whose window holds the number of items the    *)
(* islice may still take.                                                  *)
(***************************************************************************)

\* next(self.source), with the bound of the islice left out
DrawUnbounded(window, items, pos) ==
    IF pos < Len(items)
    THEN [err |-> FALSE, val |-> items[pos + 1], window |-> window,
          pos |-> pos + 1]
    ELSE [err |-> TRUE, window |-> window, pos |-> pos]

\* next(self.source): StopIteration when the islice has taken its items or
\* the iterator under it is exhausted
Draw(window, items, pos) ==
    IF window # None /\ Val(window) = 0
    THEN [err |-> TRUE, window |-> window, pos |-> pos]
    ELSE IF pos < Len(items)
    THEN [err |-> FALSE, val |-> items[pos + 1],
          window |-> IF window = None THEN None ELSE Some(Val(window) - 1),
          pos |-> pos + 1]
    ELSE [err |-> TRUE,
          window |-> IF window = None THEN None ELSE Some(0),
          pos |-> pos]

\* for _ in range(fetch): self.saved.append(next(self.source)), as a
\* function of the state [saved, window, pos] the loop starts in; err when
\* a next() raised StopIteration (the constructor raises ValueError)
RECURSIVE FetchLoop(_, _, _)
FetchLoop(st, items, fetch) ==
    IF fetch <= 0 THEN [st EXCEPT !.err = FALSE]
    ELSE LET d == Draw(st.window, items, st.pos)
         IN  IF d.err
             THEN [st EXCEPT !.err = TRUE, !.window = d.window]
             ELSE FetchLoop([st EXCEPT !.saved = Append(@, d.val),
                                       !.window = d.window,
                                       !.pos = d.pos],
                            items, fetch - 1)

\* A constructor that looks ahead without drawing: a failed prefetch leaves
\* the source where it was.
ConstructPeek(window, items, pos, fetch) ==
    LET r == FetchLoop([saved |-> <<>>, window |-> window, pos |-> pos,
                        err |-> FALSE], items, fetch)
    IN  IF fetch < 1 \/ r.err
        THEN [saved |-> <<>>, window |-> window, pos |-> pos, err |-> TRUE]
        ELSE r

\* Prefetch.__init__(source, fetch) after self.source = iter(source):
\* err is the ValueError of fetch < 1 or of a failed prefetch
Construct(window, items, pos, fetch) ==
    IF fetch < 1
    THEN [saved |-> <<>>, window |-> window, pos |-> pos, err |-> TRUE]
    ELSE FetchLoop([saved |-> <<>>, window |-> window, pos |-> pos,
                    err |-> FALSE], items, fetch)

\* self.saved.pop(): the newest item first
PopSavedLast(saved) ==
    [val |-> saved[Len(saved)], saved |-> SubSeq(saved, 1, Len(saved) - 1)]

\* self.saved.pop(0)
PopSaved(saved) == [val |-> Head(saved), saved |-> Tail(saved)]

\* next() of a chain that reads the buffer without taking the item out
ChainNextKeeping(state, saved, window, items, pos) ==
    IF state \in {"fresh", "saved"} /\ Len(saved) > 0
    THEN [err |-> FALSE, val |-> Head(saved), state |-> "saved",
          saved |-> saved, window |-> window, pos |-> pos]
    ELSE LET d == Draw(window, items, pos)
         IN  IF d.err
             THEN [err |-> TRUE, state |-> "done", saved |-> saved,
                   window |-> d.window, pos |-> d.pos]
             ELSE [err |-> FALSE, val |-> d.val, state |-> "source",
                   saved |-> saved, window |-> d.window, pos |-> d.pos]

\* next() of chain(self._get_and_discard(), self.source) in an iteration
\* that is in the given state: "fresh" and "saved" read the buffer and move
\* on to the source for good once they find it empty
ChainNext(state, saved, window, items, pos) ==
    IF state \in {"fresh", "saved"} /\ Len(saved) > 0
    THEN LET q == PopSaved(saved)
         IN  [err |-> FALSE, val |-> q.val, state |-> "saved",
              saved |-> q.saved, window |-> window, pos |-> pos]
    ELSE LET d == Draw(window, items, pos)
         IN  IF d.err
             THEN [err |-> TRUE, state |-> "done", saved |-> saved,
                   window |-> d.window, pos |-> d.pos]
             ELSE [err |-> FALSE, val |-> d.val, state |-> "source",
                   saved |-> saved, window |-> d.window, pos |-> d.pos]

\* self.used = True inside the for loop, at the first item served
UsedAfterEager(used, exhausted) == TRUE

\* self.used = True after the for loop: set when the chain is exhausted
UsedAfter(used, exhausted) == IF exhausted THEN TRUE ELSE used

\* One next() on iteration i of the Prefetch p over the iterator at pos: the
\* Prefetch and the position afterwards.  p holds saved, used, the window of
\* its source, the state of each of its iterations (iters) and the items it
\* has handed out so far, in the order they were handed out (served).
IterNext(p, i, items, pos) ==
    LET c == ChainNext(p.iters[i], p.saved, p.window, items, pos)
    IN  [p   |-> [p EXCEPT
                    !.saved = c.saved,
                    !.window = c.window,
                    !.used = UsedAfter(p.used, c.err),
                    !.served = IF c.err THEN @ ELSE Append(@, c.val),
                    !.iters[i] = c.state],
         pos |-> c.pos]

\* An iteration that next() can still be called on with effect: a generator
\* that has not started ("fresh") or is suspended at its yield.
Live(state) == state \in {"fresh", "saved", "source"}

\* The iterations of p without those that have ended or were closed.
LiveIters(p) == [p EXCEPT !.iters = SelectSeq(@, Live)]

\* A call Prefetch(source, fetch) that has not run yet, over a source of
\* 0..MaxSource items.  got[i] records the items iteration i has yielded.
PrefetchInit ==
    /\ chunker = Unused /\ safezip = Unused
    /\ censor = Unused /\ batched = Unused
    /\ rsampler = Unused /\ extender = Unused
    /\ breaker = Unused /\ filter = Unused
    /\ threader = Unused /\ stage = Unused /\ tupleops = Unused
    /\ h5save = Unused /\ schemah5 = Unused
    /\ \E n \in 0..MaxSource, fetch \in 0..MaxFetch :
        prefetch = [items |-> [k \in 1..n |-> k], pos |-> 0,
                    fetch |-> fetch,
                    p |-> [saved |-> <<>>, used |-> FALSE, window |-> None,
                           iters |-> <<>>, served |-> <<>>],
                    got |-> <<>>,
                    pc |-> "call"]

\* Prefetch.__init__
PrefetchConstruct ==
    /\ prefetch.pc = "call"
    /\ LET r == Construct(None, prefetch.items, prefetch.pos, prefetch.fetch)
       IN  prefetch' = [prefetch EXCEPT
              !.p.saved = r.saved,
              !.pos = r.pos,
              !.pc = IF r.err THEN "ValueError" ELSE "built"]
    /\ UNCHANGED notPrefetch

\* iter(prefetch): a new generator, which runs nothing yet
PrefetchIter ==
    /\ prefetch.pc = "built"
    /\ Len(prefetch.p.iters) < MaxIters
    /\ prefetch' = [prefetch EXCEPT !.p.iters = Append(@, "fresh"),
                                    !.got = Append(@, <<>>)]
    /\ UNCHANGED notPrefetch

\* next() on one of the generators of Prefetch.__iter__
PrefetchIterNext ==
    /\ prefetch.pc = "built"
    /\ \E i \in DOMAIN prefetch.p.iters :
        /\ Live(prefetch.p.iters[i])
        /\ LET r == IterNext(prefetch.p, i, prefetch.items, prefetch.pos)
           IN  prefetch' = [prefetch EXCEPT
                  !.p = r.p,
                  !.pos = r.pos,
                  !.got[i] = @ \o SubSeq(r.p.served,
                                         Len(prefetch.p.served) + 1,
                                         Len(r.p.served))]
    /\ UNCHANGED notPrefetch

\* The consumer abandons an iteration: the generator is closed where it
\* stands, before or at a yield.
PrefetchIterClose ==
    /\ prefetch.pc = "built"
    /\ \E i \in DOMAIN prefetch.p.iters :
        /\ Live(prefetch.p.iters[i])
        /\ prefetch' = [prefetch EXCEPT !.p.iters[i] = "closed"]
    /\ UNCHANGED notPrefetch

PrefetchNext ==
    \/ PrefetchConstruct
    \/ PrefetchIter
    \/ PrefetchIterNext
    \/ PrefetchIterClose

SpecPrefetch == PrefetchInit /\ [][PrefetchNext]_vars

\* No iteration has handed out an item yet.
NothingServed == prefetch.p.served = <<>>

\* C8: with fetch >= 1 nothing is drawn before the constructor runs; a
\* constructor that succeeds has drawn exactly the first fetch items of the
\* source into its buffer; the constructor fails exactly when the source has
\* fewer than fetch items, before any iteration exists, and the failed
\* constructor has consumed every item the source had.
C8_PrefetchDrawsAtConstruction ==
    (prefetch.pc # "unused" /\ prefetch.fetch >= 1) =>
        /\ prefetch.pc = "call" => prefetch.pos = 0
        /\ prefetch.pc = "built" =>
              /\ Len(prefetch.items) >= prefetch.fetch
              /\ NothingServed =>
                    /\ prefetch.pos = prefetch.fetch
                    /\ prefetch.p.saved =
                          SubSeq(prefetch.items, 1, prefetch.fetch)
        /\ prefetch.pc = "ValueError" =>
              /\ Len(prefetch.items) < prefetch.fetch
              /\ prefetch.pos = Len(prefetch.items)
              /\ prefetch.p.iters = <<>>
        /\ Len(prefetch.items) < prefetch.fetch =>
              prefetch.pc \in {"call", "ValueError"}

\* Prefetch(source of two items, fetch=3): the constructor has failed and the
\* two items are gone from the source.
C8_Witness ==
    /\ prefetch.pc = "ValueError"
    /\ prefetch.fetch = 3
    /\ Len(prefetch.items) = 2
    /\ prefetch.pos = 2

\* C9: an iteration that has run to exhaustion and has handed out itself
\* every item the Prefetch has served has yielded exactly the items of the
\* source, in source order; every iteration that is the only one to have
\* served items has yielded a prefix of the source.
C9_SingleIterationYieldsSource ==
    prefetch.pc = "built" =>
        \A i \in DOMAIN prefetch.p.iters :
            prefetch.got[i] = prefetch.p.served =>
                /\ IsPrefix(prefetch.got[i], prefetch.items)
                /\ prefetch.p.iters[i] = "done" =>
                      prefetch.got[i] = prefetch.items

\* One finished iteration over a Prefetch of four items with two buffered.
C9_Witness ==
    /\ prefetch.pc = "built"
    /\ prefetch.fetch = 2
    /\ Len(prefetch.p.iters) = 1
    /\ prefetch.p.iters[1] = "done"
    /\ prefetch.got[1] = <<1, 2, 3, 4>>

\* Some iteration has run to exhaustion.
SomeIterationDone ==
    \E i \in DOMAIN prefetch.p.iters : prefetch.p.iters[i] = "done"

\* C10: used is False before and after construction and stays False until
\* some iteration has run to exhaustion, whatever has been handed out or
\* abandoned; it is True once one has; and once True it is never False again.
C10_UsedFlag ==
    /\ [](prefetch.pc # "unused" => (prefetch.p.used <=> SomeIterationDone))
    /\ [][prefetch.p.used => prefetch'.p.used]_vars

\* Every item has been handed out, one iteration was abandoned part-way and
\* another holds the last item without having been told of the end: used is
\* still False.
C10_Witness ==
    /\ prefetch.pc = "built"
    /\ Len(prefetch.items) >= 2
    /\ prefetch.p.served = prefetch.items
    /\ ~prefetch.p.used
    /\ \E i, j \in DOMAIN prefetch.p.iters :
          /\ prefetch.p.iters[i] = "closed"
          /\ prefetch.got[i] # <<>>
          /\ Live(prefetch.p.iters[j])
          /\ prefetch.got[j] # <<>>

\* The items iteration i has yielded are handed out in ascending order.
Ascending(s) == \A m, n \in DOMAIN s : m < n => s[m] < s[n]

\* C33: whatever iterations are run over one Prefetch, one after the other
\* or interleaved, every item an iteration yields is the first item of the
\* source no iteration has yielded yet, the buffered items going out before
\* the source is drawn from: together the iterations have yielded a prefix
\* of the source without a repeat or a gap, each item by one iteration
\* only.  An iteration ends only when the whole source has been yielded,
\* and once one has ended no iteration yields anything more.
C33_IterationsShareOneStream ==
    /\ [](prefetch.pc = "built" =>
            /\ IsPrefix(prefetch.p.served, prefetch.items)
            /\ prefetch.p.served \o prefetch.p.saved
                  = SubSeq(prefetch.items, 1, prefetch.pos)
            /\ \A i \in DOMAIN prefetch.got : Ascending(prefetch.got[i])
            /\ \A i, j \in DOMAIN prefetch.got :
                  i # j =>
                     \A m \in DOMAIN prefetch.got[i],
                        n \in DOMAIN prefetch.got[j] :
                            prefetch.got[i][m] # prefetch.got[j][n]
            /\ \A k \in DOMAIN prefetch.p.served :
                  \E i \in DOMAIN prefetch.got :
                     \E m \in DOMAIN prefetch.got[i] :
                        prefetch.got[i][m] = prefetch.p.served[k]
            /\ SomeIterationDone => prefetch.p.served = prefetch.items)
    /\ [][(prefetch.pc = "built" /\ prefetch'.p.served # prefetch.p.served)
            => /\ ~SomeIterationDone
               /\ Len(prefetch.p.served) < Len(prefetch.items)
               /\ prefetch'.p.served =
                     Append(prefetch.p.served,
                            prefetch.items[Len(prefetch.p.served) + 1])
               /\ prefetch.p.saved # <<>> =>
                     /\ prefetch'.p.saved = Tail(prefetch.p.saved)
                     /\ prefetch'.pos = prefetch.pos]_vars

\* Two items were buffered; a first iteration was abandoned after one item
\* and a second one, run to its end, yielded the other buffered item and
\* then the rest of the source.
C33_Witness ==
    /\ prefetch.pc = "built"
    /\ prefetch.fetch = 2
    /\ Len(prefetch.p.iters) = 2
    /\ prefetch.p.iters[1] = "closed"
    /\ prefetch.got[1] = <<1>>
    /\ prefetch.p.iters[2] = "done"
    /\ prefetch.got[2] = <<2, 3, 4>>

(***************************************************************************)
(* transform.prefetch: lazy_batched                                        *)
(*                                                                         *)
(* batches holds every Prefetch served, in order; g of the source is the   *)
(* last of them.  Every batch draws through its own islice from the one    *)
(* iterator it, of which pos items have been drawn.  requests records, for *)
(* every next() on the lazy_batched generator, whether the batch served    *)
(* before it was used when the request was made, what the request did, and *)
(* the number of batches served after it.  Of the iterations over a batch  *)
(* only those that can still run are kept.                                 *)
(***************************************************************************)

\* if g.used is False: raise, with the test left out
MustRefuseNever(first_iteration, g_used) == FALSE

\* else: if g.used is False: raise ValueError
MustRefuse(first_iteration, g_used) == ~first_iteration /\ g_used = FALSE

\* A call lazy_batched(target, size) over 0..MaxSource items: a generator
\* that has not run yet.
BatchedInit ==
    /\ chunker = Unused /\ safezip = Unused
    /\ censor = Unused /\ prefetch = Unused
    /\ rsampler = Unused /\ extender = Unused
    /\ breaker = Unused /\ filter = Unused
    /\ threader = Unused /\ stage = Unused /\ tupleops = Unused
    /\ h5save = Unused /\ schemah5 = Unused
    /\ \E n \in 0..MaxSource, size \in 0..MaxSize :
        batched = [items |-> [k \in 1..n |-> k], pos |-> 0, size |-> size,
                   first_iteration |-> TRUE, batches |-> <<>>,
                   requests |-> <<>>, pc |-> "created"]

\* One next() on the lazy_batched generator b: the size check on the first,
\* first_iteration = False on the later ones, then one pass of the while
\* loop up to its yield, return or raise.
BatchedResume(b) ==
    LET first == IF b.pc = "created" THEN b.first_iteration ELSE FALSE
        nb    == Len(b.batches)
        gused == IF nb = 0 THEN TRUE ELSE b.batches[nb].used
        made  == Construct(Some(b.size), b.items, b.pos, 1)
        log(outcome, n) == Append(b.requests, [prev_used |-> gused,
                                               outcome |-> outcome,
                                               batches |-> n])
    IN  IF b.pc = "created" /\ b.size < 1
        THEN [b EXCEPT !.pc = "ValueError",
                       !.requests = log("raised_size", nb)]
        ELSE IF MustRefuse(first, gused)
        THEN [b EXCEPT !.first_iteration = first,
                       !.pc = "ValueError",
                       !.requests = log("raised_order", nb)]
        ELSE IF made.err
        THEN [b EXCEPT !.first_iteration = first,
                       !.pos = made.pos,
                       !.pc = "returned",
                       !.requests = log("returned", nb)]
        ELSE [b EXCEPT !.first_iteration = first,
                       !.pos = made.pos,
                       !.batches = Append(@, [saved |-> made.saved,
                                              used |-> FALSE,
                                              window |-> made.window,
                                              iters |-> <<>>,
                                              served |-> <<>>]),
                       !.pc = "yielded",
                       !.requests = log("served", nb + 1)]

\* next(): a batch is served
BatchedServe ==
    /\ batched.pc \in {"created", "yielded"}
    /\ batched' = BatchedResume(batched)
    /\ batched'.pc = "yielded"
    /\ UNCHANGED notBatched

\* next(): the iterator is exhausted, return (StopIteration)
BatchedReturn ==
    /\ batched.pc \in {"created", "yielded"}
    /\ batched' = BatchedResume(batched)
    /\ batched'.pc = "returned"
    /\ UNCHANGED notBatched

\* next(): ValueError, for the size or for the order of consumption
BatchedRaise ==
    /\ batched.pc \in {"created", "yielded"}
    /\ batched' = BatchedResume(batched)
    /\ batched'.pc = "ValueError"
    /\ UNCHANGED notBatched

\* iter(batch) on a served batch, with at most MaxBatchIters iterations over
\* one batch running at a time
BatchedIter ==
    /\ \E k \in DOMAIN batched.batches :
        /\ Len(batched.batches[k].iters) < MaxBatchIters
        /\ batched' = [batched EXCEPT
              !.batches[k].iters = Append(@, "fresh")]
    /\ UNCHANGED notBatched

\* next() on an iteration over a served batch
BatchedIterNext ==
    /\ \E k \in DOMAIN batched.batches :
       \E i \in DOMAIN batched.batches[k].iters :
        /\ Live(batched.batches[k].iters[i])
        /\ LET r == IterNext(batched.batches[k], i, batched.items,
                             batched.pos)
           IN  batched' = [batched EXCEPT !.batches[k] = LiveIters(r.p),
                                          !.pos = r.pos]
    /\ UNCHANGED notBatched

\* The consumer abandons an iteration over a served batch.
BatchedIterClose ==
    /\ \E k \in DOMAIN batched.batches :
       \E i \in DOMAIN batched.batches[k].iters :
        /\ Live(batched.batches[k].iters[i])
        /\ batched' = [batched EXCEPT
              !.batches[k] = LiveIters([@ EXCEPT !.iters[i] = "closed"])]
    /\ UNCHANGED notBatched

BatchedNext ==
    \/ BatchedServe
    \/ BatchedReturn
    \/ BatchedRaise
    \/ BatchedIter
    \/ BatchedIterNext
    \/ BatchedIterClose

SpecBatched == BatchedInit /\ [][BatchedNext]_vars

\* Every request so far was made with the batch served before it used.
Disciplined ==
    \A r \in DOMAIN batched.requests : batched.requests[r].prev_used

\* The items a batch holds: those it has handed out and those still buffered.
Contents(b) == b.served \o b.saved

\* C6: as long as every batch has been drained to exhaustion before the next
\* request, with size >= 1 no request raises; every batch served is
\* non-empty and holds at most size items; every batch but the last holds
\* exactly size items; the items the batches have handed out or buffered
\* concatenate, in order, to the part of the source drawn so far; and when the
\* batching has ended, ceil(n / size) batches were served and their contents
\* concatenate to the whole source.
C6_DrainedBatchesPartitionSource ==
    (batched.pc # "unused" /\ batched.size >= 1 /\ Disciplined) =>
        LET nb == Len(batched.batches) IN
        /\ batched.pc # "ValueError"
        /\ \A k \in 1..nb :
              /\ Len(Contents(batched.batches[k])) >= 1
              /\ Len(Contents(batched.batches[k])) <= batched.size
              /\ k < nb => /\ batched.batches[k].used
                           /\ Len(batched.batches[k].served) = batched.size
        /\ Flatten([k \in 1..nb |-> Contents(batched.batches[k])])
              = SubSeq(batched.items, 1, batched.pos)
        /\ batched.pc = "returned" =>
              /\ nb = CeilDiv(Len(batched.items), batched.size)
              /\ \A k \in 1..nb : batched.batches[k].used
              /\ Flatten([k \in 1..nb |-> batched.batches[k].served])
                    = batched.items

\* Four items in batches of two: two full batches, each drained before the
\* next request, and a third request that ends the batching.
C6_Witness ==
    /\ batched.pc = "returned"
    /\ Disciplined
    /\ batched.size = 2
    /\ Len(batched.items) = 4
    /\ Len(batched.batches) = 2
    /\ Len(batched.requests) = 3
    /\ batched.batches[2].served = <<3, 4>>

\* C7: a request made while the batch served before it has used = False
\* raises the sequencing error (ValueError) and serves no batch: the number
\* of batches served is the same after it as after the request before.
C7_EarlyRequestRefused ==
    batched.pc # "unused" =>
        \A r \in DOMAIN batched.requests :
            ~batched.requests[r].prev_used =>
                /\ r > 1
                /\ batched.requests[r].outcome = "raised_order"
                /\ batched.requests[r].batches
                      = batched.requests[r - 1].batches
                /\ r = Len(batched.requests)
                /\ batched.pc = "ValueError"
                /\ Len(batched.batches) = batched.requests[r].batches

\* The second batch was requested before the first was used and the request
\* was refused; the first batch has handed out its two items and, not told
\* of the end, is still not used.
C7_Witness ==
    /\ batched.pc = "ValueError"
    /\ Len(batched.requests) = 2
    /\ batched.requests[2].outcome = "raised_order"
    /\ Len(batched.batches) = 1
    /\ batched.size = 2
    /\ batched.batches[1].served = <<1, 2>>
    /\ ~batched.batches[1].used

\* The batches served before the most recent one.
EarlierBatches == 1..(Len(batched.batches) - 1)

\* C35: whatever the consumer does, every batch but the one served last
\* has used = True, its buffer empty and its islice exhausted, so that at
\* most one batch, the last, has used = False; and a batch that is not the
\* last hands out nothing more: the items of two batches are never drawn
\* in turn from the iterator they share.
C35_OneOpenBatch ==
    /\ [](batched.pc # "unused" =>
            \A k \in EarlierBatches :
                /\ batched.batches[k].used
                /\ batched.batches[k].saved = <<>>
                /\ batched.batches[k].window = Some(0))
    /\ [][batched.pc # "unused" =>
            \A k \in EarlierBatches :
                batched'.batches[k].served = batched.batches[k].served]_vars

\* The first batch is used and iterated once more; the second, served
\* after it, has handed out one of its two items and is not used.
C35_Witness ==
    /\ Len(batched.batches) = 2
    /\ batched.size = 2
    /\ batched.batches[1].used
    /\ batched.batches[1].iters # <<>>
    /\ ~batched.batches[2].used
    /\ batched.batches[2].served = <<3>>
    /\ batched.batches[2].saved = <<>>

\* The last request was refused with the sequencing error.
Refused ==
    /\ batched.pc = "ValueError"
    /\ batched.requests[Len(batched.requests)].outcome = "raised_order"

\* The items of the source that fall to the k-th batch.
WindowOf(k) ==
    SubSeq(batched.items, (k - 1) * batched.size + 1,
           Min(k * batched.size, Len(batched.items)))

\* C36: the request that is refused with the sequencing error draws
\* nothing from the iterator and leaves every batch as it was; after it
\* the batch served last still hands out the items of its window and no
\* others, all of them once its iteration has run to the end; and the
\* lazy_batched generator stays finished, serving no batch any more.
C36_RefusedRequestDrawsNothing ==
    /\ [][(batched.pc # "unused" /\ ~Refused /\ Refused') =>
            /\ batched'.pos = batched.pos
            /\ batched'.batches = batched.batches]_vars
    /\ [](batched.pc # "unused" /\ Refused =>
            LET nb == Len(batched.batches)
                g  == batched.batches[nb]
            IN  /\ nb >= 1
                /\ IsPrefix(g.served, WindowOf(nb))
                /\ IsPrefix(Contents(g), WindowOf(nb))
                /\ g.used => g.served = WindowOf(nb))
    /\ [][(batched.pc # "unused" /\ Refused) =>
            /\ Refused'
            /\ batched'.requests = batched.requests
            /\ Len(batched'.batches) = Len(batched.batches)]_vars

\* The second batch of two was requested with the first one holding an
\* item still; the request was refused, and the first batch, drained after
\* that, has handed out both items of its window and is used.
C36_Witness ==
    /\ Refused
    /\ Len(batched.requests) = 2
    /\ ~batched.requests[2].prev_used
    /\ Len(batched.batches) = 1
    /\ batched.size = 2
    /\ Len(batched.items) = 4
    /\ batched.batches[1].used
    /\ batched.batches[1].served = <<1, 2>>
    /\ batched.pos = 2

(***************************************************************************)
(* transform.rejection.RSampler                                            *)
(*                                                                         *)
(* Weights and random variates are measured on a grid on which 1.0 is One  *)
(* and one step is the machine epsilon of the float type, Tol.  A source   *)
(* pull is (data0, data1, weights) with the same number of frames in each  *)
(* array.  One action is one pass of the for loop of __iter__: the source  *)
(* delivers a pull and the pass ends at the yield, at the raise, or at the *)
(* bottom of the loop when the pull is dropped.                            *)
(***************************************************************************)

\* 1 in "1 + self._tol"
One == 2

\* _tol = finfo(float).eps
Tol == 1

\* The weights a source may carry: 0, 0.5, 1, 1 + eps and 1 + 2 eps.
WeightValues == 0..(One + 2 * Tol)

\* The values rng.random() may return: variates in [0, 1).
VariateValues == 0..(One - 1)

\* tup[position] for a tuple and an integer position
TupleIndex(tup, position) ==
    LET n == Len(tup)
        p == IF position < 0 THEN n + position ELSE position
    IN  IF p < 0 \/ p >= n THEN IndexError ELSE Ok(tup[p + 1])

\* ratios.max(): the largest entry; an empty array has none
ArrayMax(ratios) ==
    IF Len(ratios) = 0 THEN [err |-> TRUE]
    ELSE Ok(CHOOSE m \in {ratios[j] : j \in DOMAIN ratios} :
                \A j \in DOMAIN ratios : ratios[j] <= m)

\* ratios.max() > 1 + 2 * self._tol: a bound one step too wide
BoundExceededWide(ratios) ==
    ArrayMax(ratios).val > One + 2 * Tol

\* ratios.max() > 1 + self._tol
BoundExceeded(ratios) ==
    ArrayMax(ratios).val > One + Tol

\* _sample_mask(ratios) returning variates <= ratios
SampleMaskInclusive(ratios, check_bound, variates) ==
    IF check_bound /\ ArrayMax(ratios).err THEN [err |-> TRUE]
    ELSE IF check_bound /\ BoundExceeded(ratios) THEN [err |-> TRUE]
    ELSE Ok([j \in DOMAIN ratios |-> variates[j] <= ratios[j]])

\* _sample_mask(ratios), variates being what _random_numbers returns
SampleMask(ratios, check_bound, variates) ==
    IF check_bound /\ ArrayMax(ratios).err THEN [err |-> TRUE]
    ELSE IF check_bound /\ BoundExceeded(ratios) THEN [err |-> TRUE]
    ELSE Ok([j \in DOMAIN ratios |-> variates[j] < ratios[j]])

\* values[mask] for a boolean mask as long as values
RECURSIVE MaskIndexFrom(_, _, _)
MaskIndexFrom(values, mask, j) ==
    IF j > Len(values) THEN <<>>
    ELSE IF mask[j]
         THEN <<values[j]>> \o MaskIndexFrom(values, mask, j + 1)
         ELSE MaskIndexFrom(values, mask, j + 1)

MaskIndex(values, mask) == MaskIndexFrom(values, mask, 1)

\* 0 == len(derived[0]): the first array standing for all of them
ServesNothingFirst(derived) == Len(derived[1]) = 0

\* 0 == max(len(x) for x in derived), derived holding at least one array
ServesNothing(derived) == \A k \in DOMAIN derived : Len(derived[k]) = 0

\* One pass of the loop body of __iter__ over pull, self being r.
RSamplerPass(r, pull, variates) ==
    LET ratios == TupleIndex(pull, r.weights_index).val
        mask   == SampleMask(ratios, r.check_bound, variates)
        rest   == IF r.discard_weights
                  THEN TupleRemove(pull, r.weights_index).val
                  ELSE pull
        to_include_mask == IndicesToMask(r.apply_to, Len(rest))
        derived == [k \in DOMAIN rest |->
                       IF to_include_mask[k] THEN MaskIndex(rest[k], mask.val)
                       ELSE rest[k]]
    IN  IF mask.err THEN [kind |-> "raise", derived |-> <<>>]
        ELSE IF r.drop_empty /\ ServesNothing(derived)
             THEN [kind |-> "pass", derived |-> derived]
             ELSE [kind |-> "yield", derived |-> derived]

\* The pulls a source may deliver: n frames in each of the three arrays.
RPull(weights) ==
    <<[j \in DOMAIN weights |-> j], [j \in DOMAIN weights |-> 10 + j],
      weights>>

RPulls ==
    {RPull(w) : w \in UNION {[1..n -> WeightValues] : n \in 0..MaxWeights}}

\* iter(RSampler(source, weights_index, apply_to, discard_weights, rng,
\* check_bound, drop_empty)): a generator that has not run yet.
\* pull, variates, derived and out record the last pass: the pull taken,
\* the variates _random_numbers returned, the tuple built and what was
\* yielded.
RSamplerInit ==
    /\ chunker = Unused /\ safezip = Unused /\ censor = Unused
    /\ prefetch = Unused /\ batched = Unused
    /\ extender = Unused /\ breaker = Unused /\ filter = Unused
    /\ threader = Unused /\ stage = Unused /\ tupleops = Unused
    /\ h5save = Unused /\ schemah5 = Unused
    /\ \E apply_to \in {None, Some({0}), Some({0, 1})},
          discard_weights \in BOOLEAN, check_bound \in BOOLEAN,
          drop_empty \in BOOLEAN :
        rsampler = [weights_index |-> -1, apply_to |-> apply_to,
                    discard_weights |-> discard_weights,
                    check_bound |-> check_bound, drop_empty |-> drop_empty,
                    consumed |-> 0, emitted |-> 0, skipped |-> 0,
                    pull |-> None, variates |-> None, derived |-> None,
                    out |-> None, pc |-> "created"]

RSamplerRunning == rsampler.pc \in {"created", "yielded", "passed"}

\* The source delivers pull and the pass over it ends as kind says.
RSamplerStep(kind, pc) ==
    /\ RSamplerRunning
    /\ rsampler.consumed < MaxPulls
    /\ \E pull \in RPulls :
       \E variates \in [1..Len(pull[1]) -> VariateValues] :
          LET res == RSamplerPass(rsampler, pull, variates)
          IN  /\ res.kind = kind
              /\ rsampler' = [rsampler EXCEPT
                    !.consumed = @ + 1,
                    !.emitted = IF kind = "yield" THEN @ + 1 ELSE @,
                    !.skipped = IF kind = "pass" THEN @ + 1 ELSE @,
                    !.pull = Some(pull),
                    !.variates = IF kind = "raise" THEN None
                                 ELSE Some(variates),
                    !.derived = IF kind = "raise" THEN None
                                ELSE Some(res.derived),
                    !.out = IF kind = "yield" THEN Some(res.derived)
                            ELSE None,
                    !.pc = pc]
    /\ UNCHANGED notRSampler

\* yield tuple(derived)
RSamplerYield == RSamplerStep("yield", "yielded")

\* if self.drop_empty and (0 == max(...)): pass
RSamplerDrop == RSamplerStep("pass", "passed")

\* raise ValueError, out of _sample_mask
RSamplerRaise == RSamplerStep("raise", "ValueError")

\* The source is exhausted: the for loop ends and the generator returns.
RSamplerReturn ==
    /\ RSamplerRunning
    /\ rsampler' = [rsampler EXCEPT !.pc = "returned"]
    /\ UNCHANGED notRSampler

RSamplerNext ==
    \/ RSamplerYield
    \/ RSamplerDrop
    \/ RSamplerRaise
    \/ RSamplerReturn

SpecRSampler == RSamplerInit /\ [][RSamplerNext]_vars

\* The weights of the pull the last pass was about.
LastRatios == TupleIndex(Val(rsampler.pull), rsampler.weights_index).val

AboveBound(ratios) == \E j \in DOMAIN ratios : ratios[j] > One + Tol

\* C11: with check_bound set, the pass over a pull holding a weight above
\* 1 + eps ends in the ValueError, nothing being emitted for that pull and
\* every earlier pull having been emitted or dropped; with check_bound unset
\* no pass ends in a ValueError, whatever the weights.
C11_BoundCheck ==
    /\ []((rsampler.pull # None /\ rsampler.check_bound
            /\ AboveBound(LastRatios)) =>
           (rsampler.pc = "ValueError" /\ rsampler.out = None))
    /\ [](rsampler.pc = "ValueError" =>
           /\ rsampler.check_bound
           /\ rsampler.consumed = rsampler.emitted + rsampler.skipped + 1)
    /\ [][rsampler'.pc = "ValueError" =>
            /\ rsampler'.emitted = rsampler.emitted
            /\ rsampler.consumed = rsampler.emitted + rsampler.skipped]_vars

\* A second pull with a weight above the bound raised after the first pull
\* had been emitted.
C11_Witness ==
    /\ rsampler.pc = "ValueError"
    /\ rsampler.check_bound
    /\ AboveBound(LastRatios)
    /\ rsampler.consumed = 2
    /\ rsampler.emitted = 1

\* The positions of the served tuple that apply_to selects.
SelectedOf(derived) ==
    {k \in DOMAIN derived :
        IndicesToMask(rsampler.apply_to, Len(derived))[k]}

SelectedAllEmpty(derived) ==
    \A k \in SelectedOf(derived) : Len(derived[k]) = 0

\* Without drop_empty every pull taken from the source has been emitted.
OneOutputPerPull ==
    ~rsampler.drop_empty =>
        /\ rsampler.skipped = 0
        /\ rsampler.pc \in {"created", "yielded", "returned"} =>
               rsampler.emitted = rsampler.consumed

\* C12 as stated: with drop_empty set, no emitted pull has every selected
\* position empty, pass-through positions not counting; with drop_empty
\* unset every source pull yields exactly one output pull.
C12_DropsWhenSelectedEmpty ==
    /\ (rsampler.pc = "yielded" /\ rsampler.drop_empty) =>
           ~SelectedAllEmpty(Val(rsampler.out))
    /\ OneOutputPerPull

\* C12 amended: with drop_empty set, a pull is dropped exactly when every
\* position of the tuple to serve, selected or pass-through, is empty, so a
\* pull whose selected positions are all empty is still emitted when a
\* pass-through position is not; with drop_empty unset every source pull
\* yields exactly one output pull.
C12_DropsWhenAllEmpty ==
    /\ (rsampler.pc = "yielded" /\ rsampler.drop_empty) =>
           \E k \in DOMAIN Val(rsampler.out) : Len(Val(rsampler.out)[k]) > 0
    /\ rsampler.pc = "passed" =>
           /\ rsampler.drop_empty
           /\ rsampler.out = None
           /\ \A k \in DOMAIN Val(rsampler.derived) :
                  Len(Val(rsampler.derived)[k]) = 0
    /\ OneOutputPerPull

\* An emitted pull whose selected positions are all empty and whose
\* pass-through position is not, with drop_empty set.
C12_Witness ==
    /\ rsampler.pc = "yielded"
    /\ rsampler.drop_empty
    /\ SelectedAllEmpty(Val(rsampler.out))
    /\ \E k \in DOMAIN Val(rsampler.out) : Len(Val(rsampler.out)[k]) > 0

\* The elements of values at the indices of kept, in their order.
Pick(values, kept) ==
    LET nth(m) == CHOOSE i \in kept : Cardinality({j \in kept : j <= i}) = m
    IN  [m \in 1..Cardinality(kept) |-> values[nth(m)]]

\* The pull of the last pass as it is served: without the weights when
\* discard_weights.
RestOfLast ==
    IF rsampler.discard_weights
    THEN SubSeq(Val(rsampler.pull), 1, 2)
    ELSE Val(rsampler.pull)

\* The positions of a served pull that apply_to selects.
RSelected(k) == rsampler.apply_to = None \/ (k - 1) \in Val(rsampler.apply_to)

ElemValues == {1, 11, 12}

EPulls == {<<a, b>> : a \in ElemValues, b \in ElemValues}

InputIndices == {None, Some(-1), Some(0), Some(1), Some(2), <<0, 1>>, <<0, 2>>}

PlacementIndices == (-3)..3

\* isinstance(self.input_index, int)
IsInt(input_index) == Len(input_index) = 1

\* The mapping handed over as extender.
MappingOf == (11 :> 10) @@ (12 :> 20)

KeyError == [err |-> TRUE]

\* _callable_mapping(mapping)(argument): mapping[argument]; a tuple is not
\* among the keys
EvalMapping(scalar, argument) ==
    IF scalar /\ argument \in DOMAIN MappingOf THEN Ok(MappingOf[argument])
    ELSE KeyError

\* A function handed over as extender: x + 100 for a value, 200 + len(x)
\* for a tuple.
EvalCallable(scalar, argument) ==
    IF scalar THEN Ok(argument + 100) ELSE Ok(200 + Len(argument))

\* self.extender(to_pass)
Extend(kind, scalar, argument) ==
    IF kind = "mapping" THEN EvalMapping(scalar, argument)
    ELSE EvalCallable(scalar, argument)

\* l_form.insert(position, value) of a Python list
ListInsert(l_form, position, value) ==
    LET n == Len(l_form)
        q == IF position < 0 THEN (IF n + position < 0 THEN 0
                                   ELSE n + position)
             ELSE Min(position, n)
    IN  SubSeq(l_form, 1, q) \o <<value>> \o SubSeq(l_form, q + 1, n)

\* tuple_insert(tup, value, position), inserting position itself when it is
\* negative, as list.insert would
TupleInsertAsList(tup, value, position) == ListInsert(tup, position, value)

\* tuple_insert(tup, value, position)
TupleInsert(tup, value, position) ==
    ListInsert(tup, IF position < 0 THEN Len(tup) + position + 1
                    ELSE position, value)

\* One pass of the loop body of __iter__ over pull, self being e.
ExtenderPass(e, pull) ==
    LET scalar  == e.input_index # None /\ IsInt(e.input_index)
        to_pass == IF e.input_index = None THEN Ok(pull)
                   ELSE IF scalar THEN TupleIndex(pull, Val(e.input_index))
                   ELSE Ok(Slice(pull, e.input_index[1], e.input_index[2], 1))
        new     == Extend(e.kind, scalar, to_pass.val)
        removed == IF Val(e.remove_input)
                   THEN (IF scalar THEN TupleRemove(pull, Val(e.input_index))
                         ELSE [err |-> TRUE])
                   ELSE Ok(pull)
    IN  IF to_pass.err THEN [kind |-> "IndexError", new |-> 0, out |-> <<>>]
        ELSE IF new.err THEN [kind |-> "KeyError", new |-> 0, out |-> <<>>]
        ELSE IF removed.err
             THEN [kind |-> "TypeError", new |-> 0, out |-> <<>>]
        ELSE [kind |-> "yield", new |-> new.val,
              out |-> TupleInsert(removed.val, new.val, e.placement_index)]

\* value is True and not isinstance(self.input_index, int), a slice passing
SetterRefusesNone(value, input_index) == value /\ input_index = None

\* value is True and not isinstance(self.input_index, int)
SetterRefuses(value, input_index) == value /\ ~IsInt(input_index)

\* The call Extender(source, extender, input_index, remove_input,
\* placement_index), about to run __init__.  remove_input is None as long
\* as the attribute _remove_input has not been assigned.
ExtenderInit ==
    /\ chunker = Unused /\ safezip = Unused /\ censor = Unused
    /\ prefetch = Unused /\ batched = Unused
    /\ rsampler = Unused /\ breaker = Unused /\ filter = Unused
    /\ threader = Unused /\ stage = Unused /\ tupleops = Unused
    /\ h5save = Unused /\ schemah5 = Unused
    /\ \E input_index \in InputIndices, remove_input \in BOOLEAN,
          placement_index \in PlacementIndices,
          kind \in {"mapping", "callable"} :
        extender = [kind |-> kind, input_index |-> input_index,
                    arg_remove_input |-> remove_input,
                    placement_index |-> placement_index,
                    remove_input |-> None, assigned |-> None,
                    served |-> 0, pull |-> None, removed |-> FALSE,
                    new |-> None, out |-> None,
                    it |-> "none", pc |-> "call"]

\* __init__: self.remove_input = remove_input runs the setter.
ExtenderConstruct ==
    /\ extender.pc = "call"
    /\ IF SetterRefuses(extender.arg_remove_input, extender.input_index)
       THEN extender' = [extender EXCEPT !.pc = "ValueError"]
       ELSE extender' = [extender EXCEPT
               !.remove_input = Some(extender.arg_remove_input),
               !.pc = "built"]
    /\ UNCHANGED notExtender

\* self.remove_input = value on a built Extender; assigned records the
\* value and whether the setter raised.
ExtenderSetRemoveInput ==
    /\ extender.pc = "built"
    /\ \E value \in BOOLEAN :
        IF SetterRefuses(value, extender.input_index)
        THEN extender' = [extender EXCEPT
                !.assigned = Some([value |-> value, raised |-> TRUE])]
        ELSE extender' = [extender EXCEPT
                !.remove_input = Some(value),
                !.assigned = Some([value |-> value, raised |-> FALSE])]
    /\ UNCHANGED notExtender

ExtenderRunning ==
    /\ extender.pc = "built"
    /\ extender.it \in {"none", "yielded"}

\* next(): the source delivers a pull and the pass over it reaches the yield.
ExtenderYield ==
    /\ ExtenderRunning
    /\ extender.served < MaxPulls
    /\ \E pull \in EPulls :
        LET res == ExtenderPass(extender, pull)
        IN  /\ res.kind = "yield"
            /\ extender' = [extender EXCEPT
                  !.served = @ + 1, !.pull = Some(pull),
                  !.removed = Val(extender.remove_input),
                  !.new = Some(res.new), !.out = Some(res.out),
                  !.it = "yielded"]
    /\ UNCHANGED notExtender

\* next(): the pass fails in pull[self.input_index], in the mapping lookup
\* or in tuple_remove, and the exception leaves the generator.
ExtenderRaise ==
    /\ ExtenderRunning
    /\ extender.served < MaxPulls
    /\ \E pull \in EPulls :
        LET res == ExtenderPass(extender, pull)
        IN  /\ res.kind # "yield"
            /\ extender' = [extender EXCEPT
                  !.pull = Some(pull), !.new = None, !.out = None,
                  !.it = res.kind]
    /\ UNCHANGED notExtender

\* next(): the source is exhausted and the generator returns.
ExtenderReturn ==
    /\ ExtenderRunning
    /\ extender' = [extender EXCEPT !.it = "returned"]
    /\ UNCHANGED notExtender

ExtenderNext ==
    \/ ExtenderConstruct
    \/ ExtenderSetRemoveInput
    \/ ExtenderYield
    \/ ExtenderRaise
    \/ ExtenderReturn

SpecExtender == ExtenderInit /\ [][ExtenderNext]_vars

\* 0-based index p of a tuple of length n, counted from the end when negative
PyIndex(p, n) == IF p < 0 THEN n + p ELSE p

\* The source pull of the last pass, without the input when it was removed.
Remaining ==
    IF extender.removed
    THEN TupleRemove(Val(extender.pull), Val(extender.input_index)).val
    ELSE Val(extender.pull)

\* placement_index is an index of a tuple one longer than the remaining one.
PlacementFits ==
    /\ extender.placement_index >= -(Len(Remaining) + 1)
    /\ extender.placement_index <= Len(Remaining)

\* What the extender is to be called with, by the kind of input_index.
ExpectedNew ==
    LET pull == Val(extender.pull)
        i    == extender.input_index
    IN  IF i # None /\ IsInt(i)
        THEN (IF extender.kind = "mapping"
              THEN MappingOf[pull[PyIndex(Val(i), Len(pull)) + 1]]
              ELSE pull[PyIndex(Val(i), Len(pull)) + 1] + 100)
        ELSE IF i = None THEN 200 + Len(pull)
        ELSE 200 + Len(SubSeq(pull, i[1] + 1, Min(i[2], Len(pull))))

\* C13: the tuple emitted for a source pull holds new = extender(input) at
\* index placement_index, and taking new out of it leaves the source pull,
\* without its input position when remove_input is set, in source order.
C13_ExtenderPlacesNew ==
    (extender.pc = "built" /\ extender.out # None /\ PlacementFits) =>
        LET out == Val(extender.out)
            at  == PyIndex(extender.placement_index, Len(out))
        IN  /\ Val(extender.new) = ExpectedNew
            /\ Len(out) = Len(Remaining) + 1
            /\ out[at + 1] = Val(extender.new)
            /\ TupleRemove(out, at).val = Remaining

\* The round trip of the example: (1, 'a') with input_index=1 and
\* remove_input=True is emitted as (1, 10).
C13_Witness ==
    /\ extender.pc = "built"
    /\ extender.kind = "mapping"
    /\ extender.input_index = Some(1)
    /\ extender.removed
    /\ extender.placement_index = -1
    /\ extender.pull = Some(<<1, 11>>)
    /\ extender.out = Some(<<1, 10>>)

\* C14: the setter of remove_input raises exactly when the value is True and
\* input_index is not an integer, at construction as at a later assignment;
\* a refused assignment leaves remove_input as it was, an accepted one
\* stores the value.
C14_RemoveInputSetter ==
    /\ [](extender.pc # "call" =>
             (extender.pc = "ValueError" <=>
                 (extender.arg_remove_input
                  /\ ~IsInt(extender.input_index))))
    /\ [](extender.pc = "ValueError" =>
             (extender.remove_input = None /\ extender.it = "none"))
    /\ [](extender.assigned # None =>
             (Val(extender.assigned).raised <=>
                 (Val(extender.assigned).value
                  /\ ~IsInt(extender.input_index))))
    /\ [][(extender.pc = "built" /\ extender'.assigned # extender.assigned) =>
             IF Val(extender'.assigned).raised
             THEN extender'.remove_input = extender.remove_input
             ELSE extender'.remove_input =
                     Some(Val(extender'.assigned).value)]_vars

\* remove_input = True was refused on an Extender built with a slice as
\* input_index, remove_input staying False.
C14_Witness ==
    /\ extender.pc = "built"
    /\ ~IsInt(extender.input_index)
    /\ extender.input_index # None
    /\ extender.assigned = Some([value |-> TRUE, raised |-> TRUE])
    /\ extender.remove_input = Some(FALSE)

(***************************************************************************)
(* transform.censor.Censor: discard_input and the kind of input_index      *)
(***************************************************************************)

\* C15: a Censor handed discard_input=True together with an input_index that
\* is not an integer is refused at construction, so no iteration step of
\* such a Censor is ever taken.
C15_DiscardInputChecked ==
    (censor.pc # "unused" /\ censor.discard_input
     /\ censor.input_index = None) =>
        censor.pc \notin {"yielded", "returned", "TypeError"}

\* The sub-pulls served so far that were cut from source pull k.
SubPullsOf(k) == {e \in DOMAIN censor.out : censor.out[e].src = k}

\* C31: in every sub-pull a position apply_to does not select holds the
\* value of the source pull as it is, the same in all sub-pulls of that
\* source pull; apply_to counts the positions left once discard_input has
\* taken the test input out, so that with the input discarded index 0
\* selects what was position 1 of the source pull; and a source pull whose
\* test mask has no True value has no sub-pull.
C31_UnselectedPassThrough ==
    (censor.pc \in {"created", "yielded", "returned"}) =>
        /\ \A e \in DOMAIN censor.out :
              LET o == censor.out[e] IN
              \A j \in DOMAIN o.pull :
                  ~Selected(j) =>
                      /\ o.pull[j] = KeptPull(o.src)[j]
                      /\ \A f \in SubPullsOf(o.src) :
                             censor.out[f].pull[j] = o.pull[j]
        /\ \A e \in DOMAIN censor.out :
              LET o == censor.out[e] IN
              (censor.discard_input /\ censor.apply_to = Some({0})) =>
                  /\ Len(censor.source[o.src]) = 2
                  /\ o.pull = <<SliceOf(censor.source[o.src][2], o.s)>>
        /\ \A k \in 1..censor.idx :
              (\A i \in DOMAIN TestMask(k) : ~TestMask(k)[i]) =>
                  SubPullsOf(k) = {}

\* The first pull of the source passed no frame and was left out; the
\* second was served as two sub-pulls, both with its second position, which
\* apply_to does not select, in full.
C31_Witness ==
    /\ censor.pc = "yielded"
    /\ ~censor.discard_input
    /\ censor.apply_to = Some({0})
    /\ censor.idx = 2
    /\ Len(censor.source[1][1]) = 3
    /\ SubPullsOf(1) = {}
    /\ SubPullsOf(2) = {1, 2}
    /\ censor.out[2].pull[2] = <<51, 52, 53>>

(***************************************************************************)
(* transform.breaker.Breaker                                               *)
(*                                                                         *)
(* A source pull is a pair of arrays; element j of the array at position   *)
(* pos of the pull number no is 100 * no + 10 * pos + j, so that an        *)
(* element tells where it comes from.  The chunker generators of one pull  *)
(* are resumed in step by safezip, so that one counter k, the rounds       *)
(* safezip has completed on the pull, gives the position of all of them.   *)
(***************************************************************************)

BArray(no, pos, length) == [j \in 1..length |-> 100 * no + 10 * pos + j]

BPulls(no) ==
    {<<BArray(no, 1, l1), BArray(no, 2, l2)>> :
        l1 \in 0..MaxFrames, l2 \in 0..MaxFrames}

BMasks ==
    {None, Some(<<TRUE>>), Some(<<FALSE>>),
     Some(<<TRUE, TRUE>>), Some(<<TRUE, FALSE>>), Some(<<FALSE, TRUE>>),
     Some(<<FALSE, FALSE>>), Some(<<TRUE, TRUE, TRUE>>),
     Some(<<TRUE, FALSE, FALSE>>), Some(<<FALSE, FALSE, FALSE>>)}

\* The tuples a model run lets one pull emit: a pull without a chunked
\* position emits without end.
MaxTuples == MaxFrames + 1

\* The outcome of next() on chunker(data, size, stride) after k chunks.
ChunkerCall(data, size, stride, k) ==
    LET length == Len(data)
    IN  IF size = None
        THEN (IF k = 0
              THEN [kind |-> "yield", val |-> Slice(data, 0, length, stride)]
              ELSE [kind |-> "stop", val |-> <<>>])
        ELSE IF k > 0 /\ ChunkStop(length, stride, Val(size), k - 1).done
             THEN [kind |-> "stop", val |-> <<>>]
        ELSE IF ChunkStart(length, stride, Val(size), k).err
             THEN [kind |-> "IndexError", val |-> <<>>]
        ELSE [kind |-> "yield",
              val |-> Slice(data, ChunkStart(length, stride, Val(size), k).val,
                            ChunkStop(length, stride, Val(size), k).stop,
                            stride)]

\* chunker(x, size=self.chunk_size), the stride left at its default
ChunkOfUnstrided(x, chunk_size, stride, k) ==
    ChunkerCall(x, chunk_size, 1, k)

\* chunker(x, size=self.chunk_size, stride=self.stride)
ChunkOf(x, chunk_size, stride, k) ==
    ChunkerCall(x, chunk_size, stride, k)

\* chunker(x, ...) whatever y says
StreamOfChunked(x, y, chunk_size, stride, k) ==
    ChunkOf(x, chunk_size, stride, k)

\* chunker(x, ...) if y else repeat(x)
StreamOf(x, y, chunk_size, stride, k) ==
    IF y THEN ChunkOf(x, chunk_size, stride, k)
    ELSE [kind |-> "yield", val |-> x]

\* len(iterables): every x of pull, or the pairs zip(pull, self.mask) forms
BreakerStreams(b, pull) ==
    IF b.mask = None THEN Len(pull)
    ELSE Min(Len(pull), Len(Val(b.mask)))

\* Round k of safezip(*iterables, mask=self.mask) over pull, self being b.
BreakerRound(b, pull, k) ==
    LET n         == BreakerStreams(b, pull)
        mask      == EffectiveMask(b.mask, n)
        nexts     == [i \in 1..n |->
                         StreamOf(pull[i], b.mask = None \/ mask[i],
                                  b.chunk_size, b.stride, k)]
        successes == [i \in 1..n |-> nexts[i].kind = "yield"]
    IN  IF Len(mask) # n THEN [kind |-> "ValueError", val |-> <<>>]
        ELSE IF \E i \in 1..n : nexts[i].kind = "IndexError"
             THEN [kind |-> "IndexError", val |-> <<>>]
        ELSE IF AllSuccesses(successes)
             THEN [kind |-> "yield", val |-> [i \in 1..n |-> nexts[i].val]]
        ELSE IF AnyMaskedSuccess(successes, mask)
             THEN [kind |-> "ValueError", val |-> <<>>]
        ELSE [kind |-> "return", val |-> <<>>]

\* iter(Breaker(source, chunk_size, stride, mask)): a generator that has not
\* run yet.  pull_no counts the pulls taken from the source, out holds the
\* tuples emitted from the current pull.
BreakerInit ==
    /\ chunker = Unused /\ safezip = Unused /\ censor = Unused
    /\ prefetch = Unused /\ batched = Unused
    /\ rsampler = Unused /\ extender = Unused /\ filter = Unused
    /\ threader = Unused /\ stage = Unused /\ tupleops = Unused
    /\ h5save = Unused /\ schemah5 = Unused
    /\ \E chunk_size \in {Some(c) : c \in 1..MaxSize} \cup {None},
          stride \in 1..MaxStride, mask \in BMasks :
        breaker = [chunk_size |-> chunk_size, stride |-> stride,
                   mask |-> mask, pull_no |-> 0, pull |-> None, k |-> 0,
                   out |-> <<>>, pc |-> "created"]

\* The current pull has a round left that does not end it.
BreakerInPull(b) ==
    /\ b.pull # None
    /\ BreakerRound(b, Val(b.pull), b.k).kind # "return"

\* One next() call on the generator b: the next round of safezip over the
\* current pull; when that round ends the pull, the first round over the
\* pull the source delivers next, or the return when the source delivers
\* none (next_pull is None).
BreakerResume(b, next_pull) ==
    IF BreakerInPull(b)
    THEN LET res == BreakerRound(b, Val(b.pull), b.k)
         IN  IF res.kind = "yield"
             THEN [b EXCEPT !.out = Append(@, res.val), !.k = @ + 1,
                            !.pc = "yielded"]
             ELSE [b EXCEPT !.pc = res.kind]
    ELSE IF next_pull = None THEN [b EXCEPT !.pc = "returned"]
    ELSE LET res == BreakerRound(b, Val(next_pull), 0)
         IN  IF res.kind = "yield"
             THEN [b EXCEPT !.pull_no = @ + 1, !.pull = next_pull,
                            !.out = <<res.val>>, !.k = 1, !.pc = "yielded"]
             ELSE [b EXCEPT !.pull_no = @ + 1, !.pull = next_pull,
                            !.out = <<>>, !.k = 0, !.pc = res.kind]

\* What the source may deliver when it is asked for its next pull; it is
\* not asked while the current pull has a round left.
BreakerSource ==
    IF BreakerInPull(breaker) THEN {None}
    ELSE {None} \cup (IF breaker.pull_no < MaxPulls
                      THEN {Some(p) : p \in BPulls(breaker.pull_no + 1)}
                      ELSE {})

\* next() that reaches the yield
BreakerYield ==
    /\ breaker.pc \in {"created", "yielded"}
    /\ \E next_pull \in BreakerSource :
        /\ breaker' = BreakerResume(breaker, next_pull)
        /\ breaker'.pc = "yielded"
        /\ Len(breaker'.out) <= MaxTuples
    /\ UNCHANGED notBreaker

\* next() that fails: ValueError out of safezip, IndexError out of chunker
BreakerRaise ==
    /\ breaker.pc \in {"created", "yielded"}
    /\ \E next_pull \in BreakerSource :
        /\ breaker' = BreakerResume(breaker, next_pull)
        /\ breaker'.pc \in {"ValueError", "IndexError"}
    /\ UNCHANGED notBreaker

\* next() that finds the source exhausted: return (StopIteration)
BreakerReturn ==
    /\ breaker.pc \in {"created", "yielded"}
    /\ breaker' = BreakerResume(breaker, None)
    /\ breaker'.pc = "returned"
    /\ UNCHANGED notBreaker

BreakerNext ==
    \/ BreakerYield
    \/ BreakerRaise
    \/ BreakerReturn

SpecBreaker == BreakerInit /\ [][BreakerNext]_vars

\* next() while the current pull has a round left
BreakerCarryOn == BreakerInPull(breaker) /\ (BreakerYield \/ BreakerRaise)

\* The consumer keeps calling next() as long as the iteration is not over:
\* a pull that has a round left is carried on, and a source that delivers
\* no further pull ends the iteration.
FairSpecBreaker ==
    SpecBreaker /\ WF_vars(BreakerCarryOn) /\ WF_vars(BreakerReturn)

\* The positions of the current pull that are chunked: all of them without
\* a mask, the True-marked ones with a mask as long as the pull.
BMarked(b) ==
    {i \in 1..Len(Val(b.pull)) : b.mask = None \/ Val(b.mask)[i]}

\* The case of C16: a bounded chunk size, a mask that fits the pull, and
\* chunked positions that all have the same leading length L >= 1.
C16Case(b) ==
    /\ b.pc # "created" /\ b.pull # None
    /\ b.chunk_size # None
    /\ (b.mask = None \/ Len(Val(b.mask)) = Len(Val(b.pull)))
    /\ BMarked(b) # {}
    /\ \A i, j \in BMarked(b) : Len(Val(b.pull)[i]) = Len(Val(b.pull)[j])
    /\ \A i \in BMarked(b) : Len(Val(b.pull)[i]) >= 1

\* ceil(ceil(L / S) / C)
ExpectedTuples(b) ==
    LET L == Len(Val(b.pull)[CHOOSE i \in BMarked(b) : TRUE])
    IN  CeilDiv(CeilDiv(L, b.stride), Val(b.chunk_size))

\* The chunks emitted so far for position i of the current pull.
ChunksAt(b, i) == [n \in 1..Len(b.out) |-> b.out[n][i]]

\* C16: a pull whose chunked positions all have length L >= 1 is emitted as
\* exactly ceil(ceil(L / S) / C) tuples without an error; each tuple holds
\* at a chunked position a chunk of 1 to C elements, the chunks of a
\* position concatenating to its value strided by S, and at any other
\* position the source value itself.
C16_BreakerChunkCount ==
    /\ [](C16Case(breaker) =>
          LET pull == Val(breaker.pull)
          IN  /\ breaker.pc \in {"yielded", "returned"}
              /\ Len(breaker.out) >= 1
              /\ Len(breaker.out) <= ExpectedTuples(breaker)
              /\ breaker.pc = "returned" =>
                     Len(breaker.out) = ExpectedTuples(breaker)
              /\ \A n \in 1..Len(breaker.out) :
                     /\ Len(breaker.out[n]) = Len(pull)
                     /\ \A i \in 1..Len(pull) :
                            IF i \in BMarked(breaker)
                            THEN /\ Len(breaker.out[n][i]) >= 1
                                 /\ Len(breaker.out[n][i])
                                        <= Val(breaker.chunk_size)
                            ELSE breaker.out[n][i] = pull[i]
              /\ \A i \in BMarked(breaker) :
                     /\ IsPrefix(Flatten(ChunksAt(breaker, i)),
                                 StridedView(pull[i], breaker.stride))
                     /\ breaker.pc = "returned" =>
                            Flatten(ChunksAt(breaker, i))
                                = StridedView(pull[i], breaker.stride))
    /\ [][(C16Case(breaker) /\ breaker'.pull_no > breaker.pull_no) =>
             Len(breaker.out) = ExpectedTuples(breaker)]_vars

\* A pull of one chunked and one repeated position, strided by 2 or more,
\* was emitted in full as two tuples or more.
C16_Witness ==
    /\ C16Case(breaker)
    /\ breaker.pc = "returned"
    /\ breaker.mask = Some(<<TRUE, FALSE>>)
    /\ breaker.stride >= 2
    /\ Len(breaker.out) >= 2

\* The pull and the position an element of a source array comes from.
OriginOf(elem) == elem \div 10

\* C17: every tuple emitted since the current pull was taken is made of that
\* pull alone: a chunk holds elements of the source array at its own
\* position, neighbours in the chunk lying exactly stride apart in it, and a
\* repeated position holds the source value; pulls are taken one after the
\* other, the tuples of a pull being emitted before the next pull is taken.
C17_BreakerNeverFuses ==
    /\ [](breaker.pull # None =>
          \A n \in 1..Len(breaker.out) :
          \A i \in 1..Len(breaker.out[n]) :
              LET chunk == breaker.out[n][i]
              IN  /\ \A j \in 1..Len(chunk) :
                         /\ OriginOf(chunk[j]) = 10 * breaker.pull_no + i
                         /\ \E m \in 1..Len(Val(breaker.pull)[i]) :
                                Val(breaker.pull)[i][m] = chunk[j]
                  /\ IF breaker.mask = None \/ Val(breaker.mask)[i]
                     THEN \A j \in 1..(Len(chunk) - 1) :
                              chunk[j + 1] - chunk[j] = breaker.stride
                     ELSE chunk = Val(breaker.pull)[i])
    /\ [][/\ breaker'.pull_no >= breaker.pull_no
          /\ breaker'.pull_no = breaker.pull_no =>
                 IsPrefix(breaker.out, breaker'.out)
          /\ breaker'.pull_no > breaker.pull_no =>
                 /\ breaker'.pull_no = breaker.pull_no + 1
                 /\ Len(breaker'.out) <= 1]_vars

\* The second pull of a source is being emitted with a stride of 2 or more,
\* a chunk of it holding two elements or more.
C17_Witness ==
    /\ breaker.pc = "yielded"
    /\ breaker.pull_no = 2
    /\ breaker.stride >= 2
    /\ \E n \in 1..Len(breaker.out) : Len(breaker.out[n][1]) >= 2
    /\ breaker.mask = None

\* C18: a pull whose number of positions differs from the length of the
\* mask ends in the ValueError of safezip, without a tuple emitted for it.
C18_MaskLengthChecked ==
    (breaker.pull # None /\ breaker.mask # None
     /\ Len(Val(breaker.mask)) # Len(Val(breaker.pull))) =>
        (breaker.pc = "ValueError" /\ breaker.out = <<>>)

\* The chunks the chunk algebra cuts an array of length len into: one
\* without a chunk size, else the strided domain range(0, len, stride) in
\* groups of chunk_size, none for an empty array.
NumChunks(b, len) ==
    IF b.chunk_size = None THEN 1
    ELSE CeilDiv(CeilDiv(len, b.stride), Val(b.chunk_size))

\* The mask has one entry per position of the current pull.
BMaskFits(b) ==
    /\ b.pull # None
    /\ (b.mask = None \/ Len(Val(b.mask)) = Len(Val(b.pull)))

\* The chunked positions of the current pull do not give the same number
\* of chunks.
UnevenChunks(b) ==
    /\ BMaskFits(b)
    /\ \E i, j \in BMarked(b) :
           NumChunks(b, Len(Val(b.pull)[i])) # NumChunks(b, Len(Val(b.pull)[j]))

\* The rounds all chunked positions of the current pull have a chunk for.
CommonRounds(b) ==
    LET counts == {NumChunks(b, Len(Val(b.pull)[i])) : i \in BMarked(b)}
    IN  CHOOSE n \in counts : \A m \in counts : n <= m

\* C34: a pull whose chunked positions give different numbers of chunks
\* ends the iteration with the ValueError of safezip, after one tuple for
\* each round all of them have a chunk for and no tuple more; and with a
\* mask that fits the pull the ValueError is raised for such a pull only,
\* the repeated positions having no part in it.
C34_UnevenChunksRaise ==
    /\ UnevenChunks(breaker) =>
           /\ breaker.pc \in {"yielded", "ValueError"}
           /\ Len(breaker.out) <= CommonRounds(breaker)
           /\ breaker.pc = "ValueError" =>
                  Len(breaker.out) = CommonRounds(breaker)
    /\ (BMaskFits(breaker) /\ breaker.pc = "ValueError") =>
           UnevenChunks(breaker)

\* The same, for pulls whose chunked positions are all non-empty.
C34_NonEmptyOnly ==
    (BMaskFits(breaker)
     /\ \A i \in BMarked(breaker) : Len(Val(breaker.pull)[i]) >= 1) =>
        C34_UnevenChunksRaise

\* The mask chunks something: there is none, or it marks a position True.
SomeChunked ==
    breaker.mask = None \/ \E i \in DOMAIN Val(breaker.mask) : Val(breaker.mask)[i]

\* The iteration is over: it returned or raised.
BreakerEnded == breaker.pc \in {"returned", "ValueError", "IndexError"}

\* C37 as stated: the iteration gets over when the mask is None or marks a
\* position True; with a mask that is False throughout, the first pull of
\* the source is emitted as it is, again and again, and the iteration is
\* never over nor at a second pull.
C37_EndsIffSomeChunked ==
    /\ (breaker.pc # "unused" /\ SomeChunked) ~> BreakerEnded
    /\ [](breaker.pc # "unused" /\ ~SomeChunked /\ breaker.pull # None =>
            /\ breaker.pc = "yielded"
            /\ breaker.pull_no = 1
            /\ \A n \in DOMAIN breaker.out :
                   breaker.out[n] = Val(breaker.pull))

\* C37, amended: the same for a mask that has one entry per position of the
\* pull.  (A mask that is False throughout and longer than the pull ends
\* the iteration with the error of safezip, and a shorter one has the
\* leading positions of the pull emitted without end.)
C37_EndsIffSomeChunkedFitting ==
    /\ (breaker.pc # "unused" /\ SomeChunked) ~> BreakerEnded
    /\ [](breaker.pc # "unused" /\ ~SomeChunked /\ BMaskFits(breaker) =>
            /\ breaker.pc = "yielded"
            /\ breaker.pull_no = 1
            /\ \A n \in DOMAIN breaker.out :
                   breaker.out[n] = Val(breaker.pull))
    /\ [](breaker.pc # "unused" /\ ~SomeChunked /\ breaker.pull # None
          /\ ~BMaskFits(breaker) =>
            IF Len(Val(breaker.mask)) > Len(Val(breaker.pull))
            THEN breaker.pc = "ValueError" /\ breaker.out = <<>>
            ELSE /\ breaker.pc = "yielded"
                 /\ \A n \in DOMAIN breaker.out :
                        breaker.out[n] = SubSeq(Val(breaker.pull), 1,
                                                Len(Val(breaker.mask))))

\* With a mask of two False entries the first pull of the source has been
\* emitted as it is as often as a run may emit it.
C37_Witness ==
    /\ breaker.pc = "yielded"
    /\ breaker.mask = Some(<<FALSE, FALSE>>)
    /\ breaker.pull_no = 1
    /\ Len(breaker.out) = MaxTuples
    /\ Len(Val(breaker.pull)[1]) >= 1

(***************************************************************************)
(* Counts below one: prefetch.lazy_batched                                 *)
(***************************************************************************)

\* C19: a count below one is refused by the call that creates the stage,
\* so that no iteration step is ever taken on a lazy_batched created with
\* size < 1.
C19_CountRefusedAtCreation ==
    (batched.pc # "unused" /\ batched.size < 1) => batched.requests = <<>>

(***************************************************************************)
(* transform.filter.Filter                                                 *)
(*                                                                         *)
(* The pulls are integers and the test is                                  *)
(*     lambda pull, limit: max(limit - pull, 0)                            *)
(* whose value is an integer: zero is falsy, anything else truthy.         *)
(***************************************************************************)

\* self.test(pull, **self.aux_args)
FilterTest(pull, aux_args) ==
    IF pull < aux_args.limit THEN aux_args.limit - pull ELSE 0

\* if value is True: only the value equal to True passes
TruthyIsTrue(value) == value = 1

\* if value: the truth value of an integer
Truthy(value) == value # 0

\* iter(Filter(source, test, **kwargs)): a generator that has not run yet.
\* calls records the arguments of every call of the test.
FilterInit ==
    /\ chunker = Unused /\ safezip = Unused /\ censor = Unused
    /\ prefetch = Unused /\ batched = Unused
    /\ rsampler = Unused /\ extender = Unused /\ breaker = Unused
    /\ threader = Unused /\ stage = Unused /\ tupleops = Unused
    /\ h5save = Unused /\ schemah5 = Unused
    /\ \E n \in 0..MaxItems, limit \in 1..(MaxItems + 1) :
       \E source \in [1..n -> 1..MaxItems] :
        filter = [source |-> source, aux_args |-> [limit |-> limit],
                  idx |-> 0, calls |-> <<>>, out |-> <<>>,
                  pc |-> "created"]

\* One next() call on the generator f: pulls are taken from the source and
\* tested until one passes, which is yielded, or the source is exhausted.
RECURSIVE FilterResume(_)
FilterResume(f) ==
    IF f.idx = Len(f.source) THEN [f EXCEPT !.pc = "returned"]
    ELSE LET pull   == f.source[f.idx + 1]
             tested == [f EXCEPT
                          !.idx = @ + 1,
                          !.calls = Append(@, [pull |-> pull,
                                               kwargs |-> f.aux_args])]
         IN  IF Truthy(FilterTest(pull, f.aux_args))
             THEN [tested EXCEPT !.out = Append(@, pull), !.pc = "yielded"]
             ELSE FilterResume(tested)

\* next() that reaches the yield
FilterYield ==
    /\ filter.pc \in {"created", "yielded"}
    /\ filter' = FilterResume(filter)
    /\ filter'.pc = "yielded"
    /\ UNCHANGED notFilter

\* next() that finds the source exhausted: return (StopIteration)
FilterReturn ==
    /\ filter.pc \in {"created", "yielded"}
    /\ filter' = FilterResume(filter)
    /\ filter'.pc = "returned"
    /\ UNCHANGED notFilter

FilterNext ==
    \/ FilterYield
    \/ FilterReturn

SpecFilter == FilterInit /\ [][FilterNext]_vars

\* The pulls among the first n of the source that the test lets pass.
PassingAmong(n) ==
    LET Passes(pull) == pull < filter.aux_args.limit
    IN  SelectSeq(SubSeq(filter.source, 1, n), Passes)

\* C20: the pulls yielded are exactly the pulls taken from the source for
\* which the test was truthy, in source order; the test was called once on
\* each pull taken, with the keyword arguments stored at construction; and
\* the iteration ends only when the whole source has been taken.
C20_FilterYieldsPassing ==
    filter.pc # "unused" =>
        /\ filter.out = PassingAmong(filter.idx)
        /\ filter.calls = [k \in 1..filter.idx |->
                              [pull |-> filter.source[k],
                               kwargs |-> filter.aux_args]]
        /\ filter.pc = "returned" => filter.idx = Len(filter.source)
        /\ filter.pc = "yielded" =>
               filter.out[Len(filter.out)] = filter.source[filter.idx]

\* A whole source was iterated: a pull for which the test returned 2 was
\* yielded and another pull was skipped.
C20_Witness ==
    /\ filter.pc = "returned"
    /\ Len(filter.out) >= 1
    /\ Len(filter.out) < Len(filter.source)
    /\ \E k \in 1..Len(filter.out) :
           FilterTest(filter.out[k], filter.aux_args) = 2

(***************************************************************************)
(* read.experimental.SentinelThreader                                      *)
(*                                                                         *)
(* Two threads: the worker started by _start, and the consumer, which      *)
(* creates iterations (generators of __iter__) and runs their code inside  *)
(* next() and close().  A step is one operation on a queue, or a stretch   *)
(* of code that touches no queue.  The source is a list, so that every     *)
(* "for x in self.source" of the worker starts from its first item.  The   *)
(* items are positive integers; Sentinel is the object self.sentinel, and  *)
(* NoQueue the None that is put on self._input.  The work queue of         *)
(* iteration i is queues[i].                                               *)
(***************************************************************************)

Sentinel == 0

NoQueue == 0

\* queue.Queue(maxsize=1)
InputSizeOne == 2 - 1

\* queue.Queue(maxsize=2)
InputSize == 2

\* The lists a source may be: 1..n, or 1..n with the sentinel at one place.
ThreadSources ==
    UNION {{[k \in 1..n |-> k]} \cup
           {[k \in 1..n |-> IF k = j THEN Sentinel ELSE k] : j \in 1..n} :
           n \in 0..MaxThreadItems}

\* SentinelThreader(source, cache_size): the state __init__ leaves, the
\* worker thread started and about to wait on self._input.
ThreaderInit ==
    /\ chunker = Unused /\ safezip = Unused /\ censor = Unused
    /\ prefetch = Unused /\ batched = Unused
    /\ rsampler = Unused /\ extender = Unused
    /\ breaker = Unused /\ filter = Unused
    /\ stage = Unused /\ tupleops = Unused
    /\ h5save = Unused /\ schemah5 = Unused
    /\ \E source \in ThreadSources, cache_size \in 1..MaxCache :
        threader = [source |-> source, cache_size |-> cache_size,
                    input |-> <<>>, queues |-> <<>>, active |-> FALSE,
                    w |-> [pc |-> "get", cur |-> NoQueue, pos |-> 0,
                           x |-> Sentinel],
                    gens |-> <<>>, running |-> 0]

\* Queue.put on a queue with room: the item joins the back of the queue.
QueuePutFront(q, x) == <<x>> \o q

QueuePut(q, x) == Append(q, x)

\* A queue made with maxsize 0, which queue.Queue takes as no limit.
QueueFullNever(q, maxsize) == FALSE

\* Queue.put blocks: the queue holds maxsize entries.
QueueFull(q, maxsize) == Len(q) >= maxsize

\* x is self.sentinel
IsSentinelNever(x) == FALSE

IsSentinel(x) == x = Sentinel

\* self._input.empty() is False
InputWaitingNever(input) == FALSE

InputWaiting(input) == input # <<>>

\* The generator that iter(threader) returns: no code of __iter__ has run.
FreshGen == [pc |-> "fresh", q |-> NoQueue, got |-> <<>>, closing |-> FALSE]

\* The consumer thread is not inside next() or close().
ConsumerIdle == threader.running = 0

\* The consumer thread is inside gens[i], at the operation named pc.
ConsumerAt(i, pc) ==
    /\ threader.running = i
    /\ threader.gens[i].pc = pc

\* iter(threader).  An iteration that was not entered yet is as good as a
\* new one, so a new one is made only when every other has been entered.
ThreaderIter ==
    /\ ConsumerIdle
    /\ Len(threader.gens) < MaxThreadIters
    /\ \A i \in 1..Len(threader.gens) : threader.gens[i].pc # "fresh"
    /\ threader' = [threader EXCEPT !.gens = Append(@, FreshGen)]
    /\ UNCHANGED notThreader

\* if self._active: raise ValueError; else: self._active = True, and on to
\* self._input.put(q).
EnterUnchecked(t, i) ==
    [t EXCEPT !.active = TRUE, !.gens[i].pc = "putq", !.running = i]

Enter(t, i) ==
    IF t.active
    THEN [t EXCEPT !.gens[i].pc = "ValueError"]
    ELSE [t EXCEPT !.active = TRUE, !.gens[i].pc = "putq", !.running = i]

\* The first next() on an iteration.
ThreaderEnter ==
    /\ ConsumerIdle
    /\ \E i \in 1..Len(threader.gens) :
        /\ threader.gens[i].pc = "fresh"
        /\ threader' = Enter(threader, i)
    /\ UNCHANGED notThreader

\* q = queue.Queue(maxsize=self.cache_size); self._input.put(q)
ThreaderPutQueue ==
    /\ \E i \in 1..Len(threader.gens) :
        /\ ConsumerAt(i, "putq")
        /\ ~QueueFull(threader.input, InputSize)
        /\ threader' = [threader EXCEPT
              !.queues = Append(@, <<>>),
              !.input = QueuePut(@, Len(threader.queues) + 1),
              !.gens[i].q = Len(threader.queues) + 1,
              !.gens[i].pc = "get"]
    /\ UNCHANGED notThreader

\* A later next(): the generator resumes after its yield, towards q.get().
ThreaderResume ==
    /\ ConsumerIdle
    /\ \E i \in 1..Len(threader.gens) :
        /\ threader.gens[i].pc = "yielded"
        /\ threader' = [threader EXCEPT !.gens[i].pc = "get", !.running = i]
    /\ UNCHANGED notThreader

\* g = q.get(); if g is self.sentinel: break; else: yield g
ThreaderGet ==
    /\ \E i \in 1..Len(threader.gens) :
        /\ ConsumerAt(i, "get")
        /\ threader.queues[threader.gens[i].q] # <<>>
        /\ LET q == threader.gens[i].q
               g == Head(threader.queues[q])
           IN  IF IsSentinel(g)
               THEN threader' = [threader EXCEPT
                       !.queues[q] = Tail(@),
                       !.gens[i].pc = "putnone"]
               ELSE threader' = [threader EXCEPT
                       !.queues[q] = Tail(@),
                       !.gens[i].got = Append(@, g),
                       !.gens[i].pc = "yielded",
                       !.running = 0]
    /\ UNCHANGED notThreader

\* close() of an iteration suspended at its yield: except GeneratorExit:
\* break
ThreaderClose ==
    /\ ConsumerIdle
    /\ \E i \in 1..Len(threader.gens) :
        /\ threader.gens[i].pc = "yielded"
        /\ threader' = [threader EXCEPT !.gens[i].pc = "putnone",
                                        !.gens[i].closing = TRUE,
                                        !.running = i]
    /\ UNCHANGED notThreader

\* self._input.put(None)
ThreaderPutNone ==
    /\ \E i \in 1..Len(threader.gens) :
        /\ ConsumerAt(i, "putnone")
        /\ ~QueueFull(threader.input, InputSize)
        /\ threader' = [threader EXCEPT !.input = QueuePut(@, NoQueue),
                                        !.gens[i].pc = "drain"]
    /\ UNCHANGED notThreader

\* try: _ = q.get(block=False) except queue.Empty: pass; then
\* self._active = False and the generator returns.
ThreaderDrain ==
    /\ \E i \in 1..Len(threader.gens) :
        /\ ConsumerAt(i, "drain")
        /\ LET q == threader.gens[i].q
           IN  threader' = [threader EXCEPT
                  !.queues[q] = IF @ = <<>> THEN @ ELSE Tail(@),
                  !.active = FALSE,
                  !.gens[i].pc = "done",
                  !.running = 0]
    /\ UNCHANGED notThreader

\* worker: current_queue = self._input.get(); if current_queue is None:
\* continue; else the for loop over self.source starts.
WorkerGet ==
    /\ threader.w.pc = "get"
    /\ threader.input # <<>>
    /\ IF Head(threader.input) = NoQueue
       THEN threader' = [threader EXCEPT !.input = Tail(@)]
       ELSE threader' = [threader EXCEPT
               !.input = Tail(@),
               !.w = [pc |-> "next", cur |-> Head(threader.input),
                      pos |-> 0, x |-> Sentinel]]
    /\ UNCHANGED notThreader

\* worker: the for loop takes x from the source; if x is self.sentinel:
\* raise ValueError, which ends the thread; at the end of the source the
\* else clause of the loop is next.
WorkerDraw ==
    /\ threader.w.pc = "next"
    /\ IF threader.w.pos = Len(threader.source)
       THEN threader' = [threader EXCEPT !.w.pc = "sentinel"]
       ELSE LET x == threader.source[threader.w.pos + 1]
            IN  threader' = [threader EXCEPT
                   !.w.pos = @ + 1,
                   !.w.x = x,
                   !.w.pc = IF IsSentinel(x) THEN "ValueError" ELSE "put"]
    /\ UNCHANGED notThreader

\* worker: current_queue.put(x, block=True); del x
WorkerPut ==
    /\ threader.w.pc = "put"
    /\ ~QueueFull(threader.queues[threader.w.cur], threader.cache_size)
    /\ threader' = [threader EXCEPT
          !.queues[threader.w.cur] = QueuePut(@, threader.w.x),
          !.w.x = Sentinel,
          !.w.pc = "check"]
    /\ UNCHANGED notThreader

\* worker: if self._input.empty() is False: break
WorkerCheck ==
    /\ threader.w.pc = "check"
    /\ threader' = [threader EXCEPT
          !.w.pc = IF InputWaiting(threader.input) THEN "get" ELSE "next"]
    /\ UNCHANGED notThreader

\* worker: else: current_queue.put(self.sentinel)
WorkerSentinel ==
    /\ threader.w.pc = "sentinel"
    /\ ~QueueFull(threader.queues[threader.w.cur], threader.cache_size)
    /\ threader' = [threader EXCEPT
          !.queues[threader.w.cur] = QueuePut(@, Sentinel),
          !.w.pc = "get"]
    /\ UNCHANGED notThreader

ThreaderNext ==
    \/ ThreaderIter
    \/ ThreaderEnter
    \/ ThreaderPutQueue
    \/ ThreaderResume
    \/ ThreaderGet
    \/ ThreaderClose
    \/ ThreaderPutNone
    \/ ThreaderDrain
    \/ WorkerGet
    \/ WorkerDraw
    \/ WorkerPut
    \/ WorkerCheck
    \/ WorkerSentinel

SpecThreader == ThreaderInit /\ [][ThreaderNext]_vars

\* The threads run: the worker takes every step it can, and the consumer
\* finishes the queue operations of a next() or close() it is inside.
\* Whether next() or close() is called at all is left to the consumer.
FairSpecThreader ==
    /\ SpecThreader
    /\ WF_vars(WorkerGet) /\ WF_vars(WorkerDraw) /\ WF_vars(WorkerPut)
    /\ WF_vars(WorkerCheck) /\ WF_vars(WorkerSentinel)
    /\ WF_vars(ThreaderPutQueue) /\ WF_vars(ThreaderGet)
    /\ WF_vars(ThreaderPutNone) /\ WF_vars(ThreaderDrain)

\* The source never produces the sentinel.
NoSentinelInSource ==
    \A k \in 1..Len(threader.source) : threader.source[k] # Sentinel

\* The items of the source that come before its first sentinel.
BeforeSentinel ==
    LET first == CHOOSE k \in 1..Len(threader.source) :
                    /\ threader.source[k] = Sentinel
                    /\ \A j \in 1..(k - 1) : threader.source[j] # Sentinel
    IN  SubSeq(threader.source, 1, first - 1)

\* Iteration i has run to its end: the loop was left on the sentinel, not
\* by a close().
EndedClean(i) ==
    /\ threader.gens[i].pc \in {"putnone", "drain", "done"}
    /\ ~threader.gens[i].closing

\* C21: over a source without the sentinel, under every interleaving and
\* every cache_size, the items an iteration has delivered are the first
\* items of the source in source order, an iteration ends only after it
\* delivered the whole source, and a next() that was entered comes back.
C21_FullIteration ==
    /\ [](threader # Unused /\ NoSentinelInSource =>
            \A i \in 1..Len(threader.gens) :
                /\ IsPrefix(threader.gens[i].got, threader.source)
                /\ EndedClean(i) => threader.gens[i].got = threader.source)
    /\ (threader # Unused /\ NoSentinelInSource /\ threader.running # 0)
          ~> (threader.running = 0)

C21_Witness ==
    /\ threader # Unused
    /\ NoSentinelInSource
    /\ Len(threader.source) > threader.cache_size
    /\ threader.cache_size > 1
    /\ \E i \in 1..Len(threader.gens) :
        /\ threader.gens[i].pc = "done"
        /\ ~threader.gens[i].closing
        /\ threader.gens[i].got = threader.source

\* Some iteration has started and has neither finished nor been closed: it
\* is suspended at its yield.
Suspended(i) ==
    /\ i <= Len(threader.gens)
    /\ threader.gens[i].pc = "yielded"

\* C22: the first next() of an iteration made while another iteration is
\* suspended at its yield fails with ValueError and changes nothing else:
\* no queue, not the worker, not the other iteration; the failed iteration
\* holds no queue and no item, and the other iteration still delivers the
\* source in order and ends only after the whole source.
C22_SecondIterationRefused ==
    /\ [][\A i \in 1..MaxThreadIters :
            (/\ i <= Len(threader.gens)
             /\ threader.gens[i].pc = "fresh"
             /\ \E j \in 1..MaxThreadIters : Suspended(j)
             /\ threader'.gens[i].pc # "fresh")
            => threader' = [threader EXCEPT !.gens[i].pc = "ValueError"]]_vars
    /\ [](threader # Unused =>
            \A i \in 1..Len(threader.gens) :
                threader.gens[i].pc = "ValueError" =>
                    /\ threader.gens[i].q = NoQueue
                    /\ threader.gens[i].got = <<>>
                    /\ NoSentinelInSource =>
                        \A j \in 1..Len(threader.gens) :
                            /\ IsPrefix(threader.gens[j].got, threader.source)
                            /\ EndedClean(j) =>
                                  threader.gens[j].got = threader.source)

C22_Witness ==
    /\ threader # Unused
    /\ NoSentinelInSource
    /\ \E i, j \in 1..Len(threader.gens) :
        /\ threader.gens[i].pc = "ValueError"
        /\ threader.gens[j].pc = "done"
        /\ ~threader.gens[j].closing
        /\ Len(threader.gens[j].got) > 1
        /\ threader.gens[j].got = threader.source

\* Iteration i is being closed early, after at least one item.
Abandoning(i) ==
    /\ threader # Unused
    /\ NoSentinelInSource
    /\ i <= Len(threader.gens)
    /\ threader.gens[i].closing
    /\ threader.gens[i].pc = "putnone"

\* The worker waits on self._input for a work queue, the None of every
\* earlier iteration taken.
WorkerWaiting ==
    /\ threader.w.pc = "get"
    /\ \A k \in 1..Len(threader.input) : threader.input[k] # NoQueue

\* The close() of iteration i has come back, the wrapper inactive.
Closed(i) ==
    /\ i <= Len(threader.gens)
    /\ threader.gens[i].pc = "done"
    /\ ~threader.active

\* Iteration i started after an iteration that was closed early.
AfterAbandoned(i) ==
    \E j \in 1..Len(threader.gens) :
        /\ threader.gens[j].closing
        /\ threader.gens[j].q < threader.gens[i].q

\* C23: over a source without the sentinel, when an iteration is closed
\* early the close() comes back with the wrapper inactive, the worker gets
\* to wait for a new work queue, and an iteration started afterwards
\* delivers the source from its first item, in order, and ends only after
\* the whole source.
C23_ResetHandshake ==
    /\ \A i \in 1..MaxThreadIters :
          Abandoning(i) ~> Closed(i)
    /\ \A i \in 1..MaxThreadIters : Abandoning(i) ~> WorkerWaiting
    /\ [](threader # Unused /\ NoSentinelInSource =>
            \A i \in 1..Len(threader.gens) :
                AfterAbandoned(i) =>
                    /\ IsPrefix(threader.gens[i].got, threader.source)
                    /\ EndedClean(i) =>
                          threader.gens[i].got = threader.source)

C23_Witness ==
    /\ threader # Unused
    /\ NoSentinelInSource
    /\ WorkerWaiting
    /\ ~threader.active
    /\ \E i, j \in 1..Len(threader.gens) :
        /\ threader.gens[j].closing
        /\ threader.gens[j].pc = "done"
        /\ Len(threader.gens[j].got) < Len(threader.source)
        /\ threader.gens[j].q < threader.gens[i].q
        /\ threader.gens[i].pc = "done"
        /\ ~threader.gens[i].closing
        /\ Len(threader.gens[i].got) > 1
        /\ threader.gens[i].got = threader.source

\* C24: when the source holds the sentinel, the worker thread is the one
\* that ends on ValueError, and it stays ended; no iteration is handed the
\* sentinel or anything after it, none ends unless it is closed, none that
\* drew from a queue fails, and while one is under way the wrapper is
\* marked active.
C24_SentinelInSource ==
    /\ [](threader # Unused /\ ~NoSentinelInSource =>
            /\ threader.w.pc = "ValueError" =>
                  /\ threader.w.x = Sentinel
                  /\ threader.w.pos = Len(BeforeSentinel) + 1
            /\ \A i \in 1..Len(threader.gens) :
                /\ IsPrefix(threader.gens[i].got, BeforeSentinel)
                /\ ~EndedClean(i)
                /\ threader.gens[i].pc = "ValueError" =>
                      threader.gens[i].q = NoQueue
                /\ threader.gens[i].pc \in {"putq", "get", "yielded"} =>
                      threader.active)
    /\ [][threader.w.pc = "ValueError" => threader'.w = threader.w]_vars

C24_Witness ==
    /\ threader # Unused
    /\ ~NoSentinelInSource
    /\ threader.w.pc = "ValueError"
    /\ threader.active
    /\ \E i \in 1..Len(threader.gens) :
        /\ ConsumerAt(i, "get")
        /\ threader.queues[threader.gens[i].q] = <<>>
        /\ threader.gens[i].got # <<>>
        /\ threader.gens[i].got = BeforeSentinel

\* The consumer is about to put on self._input: the work queue at the
\* start of an iteration, or the None at its end.
ConsumerPutting ==
    \E i \in 1..Len(threader.gens) :
        ConsumerAt(i, "putq") \/ ConsumerAt(i, "putnone")

\* C39: self._input never holds more than two entries, and whenever the
\* consumer is about to put on it there is room, so the put does not block.
C39_ControlQueueNeverBlocks ==
    threader # Unused =>
        /\ Len(threader.input) <= 2
        /\ ConsumerPutting => Len(threader.input) < InputSize

\* The consumer puts the work queue of a second iteration while the None of
\* the first is still on self._input.
C39_Witness ==
    /\ threader # Unused
    /\ threader.input = <<NoQueue, 2>>
    /\ \E i \in 1..Len(threader.gens) : ConsumerAt(i, "get")

\* The items drawn from the source for work queue q that the consumer has
\* not taken: those on the queue and the one the worker holds for it.
Untaken(q) ==
    Cardinality({k \in 1..Len(threader.queues[q]) :
                    threader.queues[q][k] # Sentinel})
    + (IF threader.w.cur = q /\ threader.w.pc = "put" THEN 1 ELSE 0)

\* C40: for every work queue at most cache_size items are queued and at
\* most cache_size + 1 are drawn and not taken; and as long as no iteration
\* has put a work queue the worker has drawn nothing.
C40_LookAheadBounded ==
    threader # Unused =>
        /\ \A q \in 1..Len(threader.queues) :
              /\ Len(threader.queues[q]) <= threader.cache_size
              /\ Untaken(q) <= threader.cache_size + 1
        /\ threader.queues = <<>> =>
              /\ threader.w.pc = "get"
              /\ threader.w.pos = 0

\* The queue is full and the worker holds one more item for it.
C40_Witness ==
    /\ threader # Unused
    /\ threader.cache_size = 2
    /\ threader.w.pc = "put"
    /\ Untaken(threader.w.cur) = 3
    /\ \E i \in 1..Len(threader.gens) :
        /\ threader.gens[i].q = threader.w.cur
        /\ ConsumerAt(i, "get")

(***************************************************************************)
(* util.tuple_insert and util.tuple_remove                                 *)
(*                                                                         *)
(* A call tuple_insert(t, v, p) followed by tuple_remove(r, p) on its      *)
(* result r.  The positions run past both ends of the tuple, where         *)
(* list.insert clamps and del raises IndexError.                           *)
(***************************************************************************)

\* The tuples of up to MaxTupleLen elements.
TupleArgs == UNION {[1..n -> {1, 2}] : n \in 0..MaxTupleLen}

\* The calls that are made: the tuple, the value and the position.
TupleopsInit ==
    /\ chunker = Unused /\ safezip = Unused /\ censor = Unused
    /\ prefetch = Unused /\ batched = Unused
    /\ rsampler = Unused /\ extender = Unused
    /\ breaker = Unused /\ filter = Unused
    /\ threader = Unused /\ stage = Unused
    /\ h5save = Unused /\ schemah5 = Unused
    /\ \E t \in TupleArgs, v \in {1, 9},
          p \in (-(MaxTupleLen + 2))..(MaxTupleLen + 1) :
        tupleops = [t |-> t, v |-> v, p |-> p, r |-> <<>>,
                    back |-> IndexError, pc |-> "call"]

\* r = tuple_insert(t, v, p)
TupleopsInsert ==
    /\ tupleops.pc = "call"
    /\ tupleops' = [tupleops EXCEPT
          !.r = TupleInsert(tupleops.t, tupleops.v, tupleops.p),
          !.pc = "inserted"]
    /\ UNCHANGED notTupleops

\* tuple_remove(r, p)
TupleopsRemove ==
    /\ tupleops.pc = "inserted"
    /\ LET back == TupleRemove(tupleops.r, tupleops.p)
       IN  tupleops' = [tupleops EXCEPT
              !.back = back,
              !.pc = IF back.err THEN "IndexError" ELSE "removed"]
    /\ UNCHANGED notTupleops

TupleopsNext ==
    \/ TupleopsInsert
    \/ TupleopsRemove

SpecTupleops == TupleopsInit /\ [][TupleopsNext]_vars

\* -(n+1) <= p <= n for the tuple t of length n
PositionInRange ==
    /\ tupleops.p >= -(Len(tupleops.t) + 1)
    /\ tupleops.p <= Len(tupleops.t)

\* C26: for -(n+1) <= p <= n the tuple r = tuple_insert(t, v, p) has length
\* n + 1, holds v at index p (counted from the end of r when p is negative)
\* and the elements of t in their order at the other indices, and
\* tuple_remove(r, p) is t again.
C26_InsertRemoveRoundTrip ==
    (tupleops.pc \in {"inserted", "removed", "IndexError"}
        /\ PositionInRange) =>
        LET n == Len(tupleops.t)
            r == tupleops.r
            q == PyIndex(tupleops.p, n + 1)
        IN  /\ Len(r) = n + 1
            /\ r[q + 1] = tupleops.v
            /\ \A k \in 1..n :
                  r[IF k <= q THEN k ELSE k + 1] = tupleops.t[k]
            /\ tupleops.pc # "IndexError"
            /\ tupleops.pc = "removed" => tupleops.back = Ok(tupleops.t)

\* A value put at a negative position inside a tuple and taken out again.
C26_Witness ==
    /\ tupleops.pc = "removed"
    /\ Len(tupleops.t) = 3
    /\ tupleops.p = -2
    /\ tupleops.v = 9
    /\ tupleops.r = <<tupleops.t[1], tupleops.t[2], 9, tupleops.t[3]>>
    /\ tupleops.back = Ok(tupleops.t)

(***************************************************************************)
(* write.batchh5.batched_h5_save                                           *)
(*                                                                         *)
(* The source is a list of pulls, a pull a pair of arrays, an array the    *)
(* sequence of its rows along the first axis; names holds two different    *)
(* names, and group[names[p]] is dsets[p].  All arrays of a position have  *)
(* the same dtype and the same shape behind the first axis.  The rows of   *)
(* pull no at position pos are 100 * no + 10 * pos + j, so that a dataset  *)
(* shows where each of its rows came from.                                 *)
(***************************************************************************)

\* The sources: up to MaxPulls pulls of two arrays of 0..MaxRows rows.
H5Sources ==
    UNION {{[no \in 1..n |-> <<BArray(no, 1, lens[no][1]),
                               BArray(no, 2, lens[no][2])>>] :
               lens \in [1..n -> (0..MaxRows) \X (0..MaxRows)]} :
           n \in 0..MaxPulls}

\* The call batched_h5_save(group, names, source, chunked) on an empty
\* group.
H5saveInit ==
    /\ chunker = Unused /\ safezip = Unused /\ censor = Unused
    /\ prefetch = Unused /\ batched = Unused
    /\ rsampler = Unused /\ extender = Unused
    /\ breaker = Unused /\ filter = Unused
    /\ threader = Unused /\ stage = Unused /\ tupleops = Unused
    /\ schemah5 = Unused
    /\ \E source \in H5Sources, chunked \in BOOLEAN :
        h5save = [source |-> source, chunked |-> chunked, k |-> 0,
                  dsets |-> <<>>, marks |-> <<>>, pc |-> "call"]

\* new_total_size = mark + size, with the mark left out
NewTotalSizeOfPull(mark, size) == size

\* new_total_size = mark + size
NewTotalSize(mark, size) == mark + size

\* dset.resize((total,) + dset.shape[1:]): rows are cut off at the end, or
\* rows of the fill value 0 are added there
Resize(dset, total) ==
    [j \in 1..total |-> IF j <= Len(dset) THEN dset[j] ELSE 0]

\* dset[mark:total] = sub
WriteRows(dset, mark, total, sub) ==
    [j \in 1..Len(dset) |->
        IF j > mark /\ j <= total THEN sub[j - mark] ELSE dset[j]]

\* chunked, the first pull: a dataset is created for every position from
\* the array of the pull, and marks holds their sizes.
H5saveCreate ==
    /\ h5save.pc = "call"
    /\ h5save.chunked
    /\ h5save.k < Len(h5save.source)
    /\ LET pull == h5save.source[1]
       IN  h5save' = [h5save EXCEPT
              !.k = 1,
              !.dsets = [p \in 1..Len(pull) |-> pull[p]],
              !.marks = [p \in 1..Len(pull) |-> Len(pull[p])],
              !.pc = "looping"]
    /\ UNCHANGED notH5save

\* chunked, a later pull: every dataset is grown by the size of the array
\* of the pull and the array is written behind the mark.
H5saveGrow ==
    /\ h5save.pc = "looping"
    /\ h5save.k < Len(h5save.source)
    /\ LET pull  == h5save.source[h5save.k + 1]
           n     == Min(Len(pull), Min(Len(h5save.marks), Len(h5save.dsets)))
           total == [p \in 1..n |->
                        NewTotalSize(h5save.marks[p], Len(pull[p]))]
       IN  h5save' = [h5save EXCEPT
              !.k = @ + 1,
              !.dsets = [p \in 1..Len(h5save.dsets) |->
                            IF p <= n
                            THEN WriteRows(Resize(h5save.dsets[p], total[p]),
                                           h5save.marks[p], total[p], pull[p])
                            ELSE h5save.dsets[p]],
              !.marks = total]
    /\ UNCHANGED notH5save

\* chunked: the source is exhausted and the call returns.
H5saveReturn ==
    /\ h5save.pc \in {"call", "looping"}
    /\ h5save.chunked
    /\ h5save.k = Len(h5save.source)
    /\ h5save' = [h5save EXCEPT !.pc = "returned"]
    /\ UNCHANGED notH5save

\* np.concatenate(x) for the arrays x
RECURSIVE Concatenate(_)
Concatenate(x) ==
    IF x = <<>> THEN <<>> ELSE Head(x) \o Concatenate(Tail(x))

\* (np.concatenate(x) for x in zip(*source)): nothing for an empty source
Combined(source) ==
    IF source = <<>> THEN <<>>
    ELSE [p \in 1..Len(source[1]) |->
            Concatenate([no \in 1..Len(source) |-> source[no][p]])]

\* chunked False: a dataset is created for every position from the
\* concatenation of its arrays, and the call returns.
H5saveOneShot ==
    /\ h5save.pc = "call"
    /\ ~h5save.chunked
    /\ h5save' = [h5save EXCEPT
          !.k = Len(h5save.source),
          !.dsets = Combined(h5save.source),
          !.pc = "returned"]
    /\ UNCHANGED notH5save

H5saveNext ==
    \/ H5saveCreate
    \/ H5saveGrow
    \/ H5saveReturn
    \/ H5saveOneShot

SpecH5save == H5saveInit /\ [][H5saveNext]_vars

\* The rows of position p of pulls 1..k, pull after pull.
RECURSIVE RowsUpTo(_, _)
RowsUpTo(p, k) ==
    IF k = 0 THEN <<>> ELSE RowsUpTo(p, k - 1) \o h5save.source[k][p]

\* What a call with chunked False leaves in the group for the same source.
OneShotDsets == Combined(h5save.source)

\* C28: in chunked mode, after k pulls the dataset of every position holds
\* the rows of that position of pulls 1..k in order and its mark is their
\* number; when the call has returned the datasets are those that chunked
\* False creates for the same source.
C28_ChunkedMatchesOneShot ==
    (h5save.pc # "unused" /\ h5save.chunked) =>
        /\ h5save.k >= 1 =>
              /\ Len(h5save.dsets) = 2
              /\ Len(h5save.marks) = 2
              /\ \A p \in 1..2 :
                    /\ h5save.dsets[p] = RowsUpTo(p, h5save.k)
                    /\ h5save.marks[p] = Len(RowsUpTo(p, h5save.k))
        /\ h5save.pc = "returned" => h5save.dsets = OneShotDsets

\* Two pulls written, the arrays of the two positions of different sizes.
C28_Witness ==
    /\ h5save.pc = "returned"
    /\ h5save.chunked
    /\ h5save.k = 2
    /\ h5save.marks = <<3, 2>>
    /\ h5save.dsets = <<<<111, 112, 211>>, <<121, 221>>>>

(***************************************************************************)
(* read.schemah5.SchemaH5                                                  *)
(*                                                                         *)
(* The file holds the groups 1..n, numbered in the order of the sorted     *)
(* self.anchors; groups[g] is the set of the dataset names in group g, a   *)
(* name being 1 or 2.  The dataset named k of group g holds 10 * g + k,    *)
(* and the location of group g is served as 100 * g.  transform is the     *)
(* default, which keeps the tuple's length and order.  What an iteration   *)
(* yields is written [bare |-> FALSE, val |-> t] for the tuple t and       *)
(* [bare |-> TRUE, val |-> <<x>>] for the value x outside any tuple.       *)
(***************************************************************************)

SchemaKeys == {1, 2}

\* Lists of names without duplicates, as __init__ accepts them.
Schemas == {<<>>, <<1>>, <<2>>, <<1, 2>>, <<2, 1>>}

\* A group that holds datasets, by their names.
GroupKinds == SUBSET SchemaKeys \ {{}}

DatasetOf(g, key) == 10 * g + key

AnchorOf(g) == 100 * g

\* SchemaH5(target, schema, strict=..., include_id=..., singleton=...)
SchemaH5Init ==
    /\ chunker = Unused /\ safezip = Unused /\ censor = Unused
    /\ prefetch = Unused /\ batched = Unused
    /\ rsampler = Unused /\ extender = Unused
    /\ breaker = Unused /\ filter = Unused
    /\ threader = Unused /\ stage = Unused /\ tupleops = Unused
    /\ h5save = Unused
    /\ \E n \in 0..MaxGroups :
       \E groups \in [1..n -> GroupKinds], schema \in Schemas,
          strict \in BOOLEAN, include_id \in BOOLEAN, singleton \in BOOLEAN :
        schemah5 = [groups |-> groups, schema |-> schema, strict |-> strict,
                    include_id |-> include_id, singleton |-> singleton,
                    idx |-> 0, out |-> <<>>, pc |-> "built"]

\* _valid_schema(data)
ValidSchema(h, g) ==
    LET keys   == h.groups[g]
        schema == {h.schema[i] : i \in 1..Len(h.schema)}
    IN  IF h.strict THEN schema = keys ELSE schema \subseteq keys

\* util.tupleize(data, self.schema), through the default transform
Tupleize(h, g) == [i \in 1..Len(h.schema) |-> DatasetOf(g, h.schema[i])]

\* if self.include_id: new_data = util.tuple_append(new_data, anchor)
NewData(h, g) ==
    IF h.include_id THEN Append(Tupleize(h, g), AnchorOf(g))
    ELSE Tupleize(h, g)

\* len(new_data) >= 1 and self.singleton
UnwrapsNonEmpty(new_data, singleton) == Len(new_data) >= 1 /\ singleton

\* len(new_data) == 1 and self.singleton
Unwraps(new_data, singleton) == Len(new_data) = 1 /\ singleton

\* yield new_data[0], or yield new_data
Yielded(h, g) ==
    IF Unwraps(NewData(h, g), h.singleton)
    THEN [bare |-> TRUE, val |-> SubSeq(NewData(h, g), 1, 1)]
    ELSE [bare |-> FALSE, val |-> NewData(h, g)]

\* The groups after the first idx that pass _valid_schema.
ValidAfter(h, idx) ==
    {g \in (idx + 1)..Len(h.groups) : ValidSchema(h, g)}

\* The least member of a non-empty set of numbers.
Least(S) == CHOOSE g \in S : \A other \in S : g <= other

\* next(): the for loop goes on to the next group that passes
\* _valid_schema and serves it.
SchemaH5Yield ==
    /\ schemah5.pc \in {"built", "yielded"}
    /\ ValidAfter(schemah5, schemah5.idx) # {}
    /\ LET g == Least(ValidAfter(schemah5, schemah5.idx))
       IN  schemah5' = [schemah5 EXCEPT
              !.idx = g,
              !.out = Append(@, Yielded(schemah5, g)),
              !.pc = "yielded"]
    /\ UNCHANGED notSchemaH5

\* next(): no group is left that passes _valid_schema.
SchemaH5Return ==
    /\ schemah5.pc \in {"built", "yielded"}
    /\ ValidAfter(schemah5, schemah5.idx) = {}
    /\ schemah5' = [schemah5 EXCEPT !.idx = Len(schemah5.groups),
                                    !.pc = "returned"]
    /\ UNCHANGED notSchemaH5

SchemaH5Next ==
    \/ SchemaH5Yield
    \/ SchemaH5Return

SpecSchemaH5 == SchemaH5Init /\ [][SchemaH5Next]_vars

\* What the same object built with singleton=False has yielded when its
\* iteration has gone through the first idx groups.
RECURSIVE YieldedUpTo(_, _)
YieldedUpTo(h, idx) ==
    IF idx = 0 THEN <<>>
    ELSE IF ValidSchema(h, idx)
         THEN Append(YieldedUpTo(h, idx - 1), Yielded(h, idx))
         ELSE YieldedUpTo(h, idx - 1)

WithoutSingleton ==
    YieldedUpTo([schemah5 EXCEPT !.singleton = FALSE], schemah5.idx)

\* C29: an iteration yields for the same groups in the same order as the
\* object built with singleton=False, which yields tuples only; where that
\* tuple has one element and singleton is True the bare element 0 of it is
\* yielded, which is always so with a one-key schema and include_id False;
\* where it has another length, as with a one-key schema and include_id,
\* or where singleton is False, the tuple itself is yielded.
C29_SingletonUnwraps ==
    schemah5.pc # "unused" =>
        /\ Len(schemah5.out) = Len(WithoutSingleton)
        /\ \A j \in 1..Len(schemah5.out) :
            LET served == WithoutSingleton[j]
            IN  /\ ~served.bare
                /\ (Len(schemah5.schema) = 1 /\ ~schemah5.include_id) =>
                      Len(served.val) = 1
                /\ (Len(schemah5.schema) = 1 /\ schemah5.include_id) =>
                      Len(served.val) = 2
                /\ IF Len(served.val) = 1 /\ schemah5.singleton
                   THEN /\ schemah5.out[j].bare
                        /\ schemah5.out[j].val = <<served.val[1]>>
                   ELSE schemah5.out[j] = served

\* A one-key schema, include_id False, singleton True: two groups served
\* as bare values, a group without the key passed over.
C29_Witness ==
    /\ schemah5.pc = "returned"
    /\ schemah5.schema = <<2>>
    /\ ~schemah5.include_id
    /\ schemah5.singleton
    /\ Len(schemah5.groups) = 3
    /\ schemah5.groups[2] = {1}
    /\ schemah5.out = <<[bare |-> TRUE, val |-> <<12>>],
                        [bare |-> TRUE, val |-> <<32>>]>>

(***************************************************************************)
(* Iterations of one stage object: transform.filter.Filter,                *)
(* transform.extend.Extender, transform.breaker.Breaker and                *)
(* transform.censor.Censor.                                                *)
(*                                                                         *)
(* stage.obj holds the attributes that __init__ assigned, the source among *)
(* them: a list, which starts at its first pull whenever it is iterated.   *)
(* Every iter(stage) creates a generator of __iter__ with local variables  *)
(* of its own, stage.its[i].loc; the consumer may call next() on the       *)
(* generators in any order and close() them at any time.  The code of one  *)
(* next() runs on the attributes and the locals together, and what it      *)
(* leaves of each is stored back.                                          *)
(***************************************************************************)

StageKinds == {"Filter", "Extender", "Breaker", "Censor"}

\* The pulls a source of a stage of the kind may hold.
StagePulls(kind) ==
    CASE kind = "Filter" -> {1, 3}
      [] kind = "Extender" -> {<<11, 12>>, <<1, 12>>}
      [] kind = "Breaker" ->
            {<<BArray(1, 1, 3), BArray(1, 2, 3)>>,
             <<BArray(2, 1, 3), BArray(2, 2, 1)>>}
      [] kind = "Censor" ->
            {<<<<3, 9, 3>>, <<51, 52, 53>>>>,
             <<<<9, 3>>, <<51, 52>>>>}

StageSources(kind) ==
    UNION {[1..n -> StagePulls(kind)] : n \in 0..MaxStagePulls}

\* The attributes other than the source that __init__ may have assigned.
StageSettings(kind) ==
    CASE kind = "Filter" -> {[aux_args |-> [limit |-> 3]]}
      [] kind = "Extender" ->
            {[kind |-> k, input_index |-> Some(0), remove_input |-> Some(r),
              placement_index |-> p] :
                k \in {"mapping", "callable"}, r \in BOOLEAN, p \in {-1}}
      [] kind = "Breaker" ->
            {[chunk_size |-> c, stride |-> s, mask |-> m] :
                c \in {Some(2), None}, s \in {1},
                m \in {None, Some(<<TRUE, FALSE>>)}}
      [] kind = "Censor" ->
            {[input_index |-> Some(0), discard_input |-> d, apply_to |-> a] :
                d \in BOOLEAN, a \in {None}}

\* The position of the iteration kept on the object: a generator made
\* later goes on where the one before it is.
SharedLocals(s) ==
    IF s.its = <<>>
    THEN CASE s.kind = "Filter" ->
                 [idx |-> 0, calls |-> <<>>, out |-> <<>>, pc |-> "created"]
           [] s.kind = "Extender" ->
                 [served |-> 0, out |-> None, pc |-> "created"]
           [] s.kind = "Breaker" ->
                 [pull_no |-> 0, pull |-> None, k |-> 0, out |-> <<>>,
                  pc |-> "created"]
           [] s.kind = "Censor" ->
                 [idx |-> 0, pending |-> <<>>, out |-> <<>>, pc |-> "created"]
    ELSE [s.its[Len(s.its)].loc EXCEPT !.pc = "created"]

\* The local variables of a generator of __iter__ that has not run yet.
FreshLocals(s) ==
    CASE s.kind = "Filter" ->
            [idx |-> 0, calls |-> <<>>, out |-> <<>>, pc |-> "created"]
      [] s.kind = "Extender" ->
            [served |-> 0, out |-> None, pc |-> "created"]
      [] s.kind = "Breaker" ->
            [pull_no |-> 0, pull |-> None, k |-> 0, out |-> <<>>,
             pc |-> "created"]
      [] s.kind = "Censor" ->
            [idx |-> 0, pending |-> <<>>, out |-> <<>>, pc |-> "created"]

\* A stage object after construction, no iteration made yet.
StageInit ==
    /\ chunker = Unused /\ safezip = Unused /\ censor = Unused
    /\ prefetch = Unused /\ batched = Unused
    /\ rsampler = Unused /\ extender = Unused
    /\ breaker = Unused /\ filter = Unused
    /\ threader = Unused /\ tupleops = Unused
    /\ h5save = Unused /\ schemah5 = Unused
    /\ \E kind \in StageKinds :
       \E source \in StageSources(kind), settings \in StageSettings(kind) :
        stage = [kind |-> kind,
                 obj |-> [source |-> source] @@ settings,
                 its |-> <<>>, pc |-> "built"]

\* One next() on an Extender generator, m holding attributes and locals.
StageExtenderResume(m) ==
    IF m.served = Len(m.source) THEN [m EXCEPT !.pc = "returned"]
    ELSE LET res == ExtenderPass(m, m.source[m.served + 1])
         IN  IF res.kind = "yield"
             THEN [m EXCEPT !.served = @ + 1, !.out = Some(res.out),
                            !.pc = "yielded"]
             ELSE [m EXCEPT !.served = @ + 1, !.pc = res.kind]

\* One next() on a Breaker generator, m holding attributes and locals.
StageBreakerResume(m) ==
    BreakerResume(m, IF m.pull_no < Len(m.source)
                     THEN Some(m.source[m.pull_no + 1]) ELSE None)

\* One next() on a generator of a stage of the kind.
StageResume(kind, m) ==
    CASE kind = "Filter" -> FilterResume(m)
      [] kind = "Extender" -> StageExtenderResume(m)
      [] kind = "Breaker" -> StageBreakerResume(m)
      [] kind = "Censor" -> CensorResume(m)

\* The value the generator has just yielded.
LastYield(kind, m) ==
    CASE kind = "Filter" -> m.out[Len(m.out)]
      [] kind = "Extender" -> Val(m.out)
      [] kind = "Breaker" -> m.out[Len(m.out)]
      [] kind = "Censor" -> m.out[Len(m.out)].pull

\* The fields of the record m named in names.
Fields(m, names) == [name \in names |-> m[name]]

\* The generator may be resumed or closed.
Suspendable(it) == it.loc.pc \in {"created", "yielded"}

\* iter(stage).  A generator that has not run is as good as a new one, so
\* a new one is made only when every other has run.
StageIter ==
    /\ Len(stage.its) < MaxStageIters
    /\ \A i \in 1..Len(stage.its) : stage.its[i].loc.pc # "created"
    /\ stage' = [stage EXCEPT
          !.its = Append(@, [loc |-> FreshLocals(stage), seen |-> <<>>])]
    /\ UNCHANGED notStage

\* next() on generator i, with what the call leaves of the attributes and
\* of the generator's locals.
StageAfter(s, i) ==
    LET it == s.its[i]
        m  == StageResume(s.kind, s.obj @@ it.loc)
    IN  [s EXCEPT
           !.obj = Fields(m, DOMAIN s.obj),
           !.its[i] = [loc |-> Fields(m, DOMAIN it.loc),
                       seen |-> IF m.pc = "yielded"
                                THEN Append(it.seen, LastYield(s.kind, m))
                                ELSE it.seen]]

\* next() that reaches a yield
StageYield ==
    /\ \E i \in 1..Len(stage.its) :
        /\ Suspendable(stage.its[i])
        /\ stage' = StageAfter(stage, i)
        /\ stage'.its[i].loc.pc = "yielded"
    /\ UNCHANGED notStage

\* next() that ends the iteration: the source is exhausted, or an
\* exception leaves the generator
StageEnd ==
    /\ \E i \in 1..Len(stage.its) :
        /\ Suspendable(stage.its[i])
        /\ stage' = StageAfter(stage, i)
        /\ stage'.its[i].loc.pc # "yielded"
    /\ UNCHANGED notStage

\* close() on generator i, or the generator is dropped: the iteration is
\* abandoned.
StageClose ==
    /\ \E i \in 1..Len(stage.its) :
        /\ Suspendable(stage.its[i])
        /\ stage' = [stage EXCEPT !.its[i].loc.pc = "closed"]
    /\ UNCHANGED notStage

StageNext ==
    \/ StageIter
    \/ StageYield
    \/ StageEnd
    \/ StageClose

SpecStage == StageInit /\ [][StageNext]_vars

\* What one iteration of the stage yields when it runs alone from a new
\* generator to its end, and how it ends.
RECURSIVE RunAlone(_, _, _, _)
RunAlone(kind, obj, loc, seen) ==
    IF loc.pc \notin {"created", "yielded"}
    THEN [seen |-> seen, pc |-> loc.pc]
    ELSE LET m == StageResume(kind, obj @@ loc)
         IN  RunAlone(kind, obj, Fields(m, DOMAIN loc),
                      IF m.pc = "yielded"
                      THEN Append(seen, LastYield(kind, m)) ELSE seen)

Reference == RunAlone(stage.kind, stage.obj, FreshLocals(stage), <<>>)

\* C25: no step of any iteration, finished or abandoned, changes the
\* attributes of the stage; a step on one generator leaves every other
\* generator as it was; and what a generator has yielded is the beginning
\* of the sequence one iteration yields alone from the first pull of the
\* source, all of it when the generator has ended, with the same end.
C25_StagesRestartable ==
    /\ [][stage'.obj = stage.obj]_vars
    /\ [][\A i, j \in 1..MaxStageIters :
            (/\ i # j
             /\ i <= Len(stage.its) /\ j <= Len(stage.its)
             /\ stage'.its[i] # stage.its[i])
            => stage'.its[j] = stage.its[j]]_vars
    /\ [](stage # Unused =>
            LET alone == Reference
            IN  \A i \in 1..Len(stage.its) :
                /\ IsPrefix(stage.its[i].seen, alone.seen)
                /\ stage.its[i].loc.pc \notin {"created", "yielded", "closed"}
                      => /\ stage.its[i].seen = alone.seen
                         /\ stage.its[i].loc.pc = alone.pc)

\* An iteration was abandoned after its first value, and another one of
\* the same stage has run to the end of the source and yielded more than
\* one value.
C25_Witness ==
    /\ stage # Unused
    /\ Len(stage.its) = 2
    /\ stage.its[1].loc.pc = "closed"
    /\ Len(stage.its[1].seen) = 1
    /\ stage.its[2].loc.pc = "returned"
    /\ Len(stage.its[2].seen) > 1
    /\ stage.its[2].seen = Reference.seen

====
